---- MODULE Spec2Model ----
(***************************************************************************)
(* A model of the DADI API FileStore adapter (lib/index.js): the DataStore *)
(* facade over the embedded LokiJS engine.                                 *)
(*                                                                         *)
(* JavaScript values are tagged tuples (<<"string", s>>, <<"number", n>>,  *)
(* <<"null">>, <<"undefined">>, <<"array", seq>>, <<"object", pairs>>,     *)
(* <<"regexp", source, flags>>), so that values of different JavaScript    *)
(* types can be compared.  A stored document is a function from field      *)
(* names to values ("$loki" is the engine's sequence number); a query or   *)
(* an update expression is a sequence of <<key, value>> pairs, in the      *)
(* order of the object's keys.                                             *)
(***************************************************************************)
EXTENDS Integers, Sequences, FiniteSets, TLC

VARIABLES
    directoryCreation, \* state of the promise made by the constructor
    fileExists,        \* whether the backing file is on disk
    database,          \* this.database: the promise made by connect
    name,              \* this.name
    readyState,        \* this.readyState
    opened,            \* number of engine instances created (new Loki)
    emitted,           \* number of DB_CONNECTED notifications emitted
    returned,          \* what each connect call was given and returned
    collections,       \* the engine's collections: name -> [data, maxId, indices]
    calls,             \* the operations issued on the facade
    issued,            \* number of operations issued so far
    uuids,             \* number of identifiers drawn from uuid.v4
    closes,            \* number of calls of the engine's close
    instance,          \* the module's `instance`
    built,             \* the facades made by new DataStore: name -> its fields
    handed             \* what each call of the exported function was given and returned

vars == <<directoryCreation, fileExists, database, name, readyState, opened,
          emitted, returned, collections, calls, issued, uuids, closes,
          instance, built, handed>>

----------------------------------------------------------------------------
(* Bounds of the model *)

MaxCalls == 2    \* operations issued on a facade (overlapping callers)
MaxOps == 3      \* operations issued by a caller that awaits each one
MaxConnects == 2 \* connect calls on a facade
MaxQueries == 3  \* calls of a caller that stores documents and then reads them
MaxAdmin == 3    \* calls of a caller that indexes and drops collections
MaxShared == 3   \* calls made through two adapters obtained from the module
MaxOverlap == 3  \* calls of a caller that stores documents, then does not wait
MaxObtained == 3 \* calls of the module's exported function
MaxEarly == 2    \* operations issued on a facade whose connect was called

(* Program constants *)

STATE_DISCONNECTED == 0
STATE_CONNECTED == 1
DefaultLimit == 100
DefaultSkip == 0

----------------------------------------------------------------------------
(* JavaScript values *)

Str(s) == <<"string", s>>
Num(n) == <<"number", n>>
Null == <<"null">>
Undefined == <<"undefined">>
Arr(s) == <<"array", s>>
Obj(pairs) == <<"object", pairs>>
RegExp(source, flags) == <<"regexp", source, flags>>

TypeTag(v) == v[1]

\* JavaScript truthiness (the left operand of ||, the operand of Boolean())
Truthy(v) ==
    CASE TypeTag(v) = "undefined" -> FALSE
      [] TypeTag(v) = "null" -> FALSE
      [] TypeTag(v) = "string" -> v[2] # ""
      [] TypeTag(v) = "number" -> v[2] # 0
      [] TypeTag(v) = "boolean" -> v[2]
      [] OTHER -> TRUE

\* typeof v === 'object'
TypeofObject(v) == TypeTag(v) \in {"object", "array", "null", "regexp"}

\* Object.keys(v) of an object or an array value
Keys(v) ==
    IF TypeTag(v) = "object" THEN [i \in 1..Len(v[2]) |-> v[2][i][1]]
    ELSE IF TypeTag(v) = "array" THEN [i \in 1..Len(v[2]) |-> ToString(i - 1)]
    ELSE <<>>

\* v[k] for the i-th key of an object or an array value
ValueAt(v, i) == IF TypeTag(v) = "object" THEN v[2][i][2] ELSE v[2][i]

\* document[field], undefined when the document has no such field
Get(doc, field) == IF field \in DOMAIN doc THEN doc[field] ELSE Undefined

Range(s) == {s[i] : i \in 1..Len(s)}

RECURSIVE Concat(_)
Concat(ss) == IF ss = <<>> THEN <<>> ELSE Head(ss) \o Concat(Tail(ss))

RECURSIVE SelectIdx(_, _, _)
SelectIdx(s, keep, i) ==
    IF i > Len(s) THEN <<>>
    ELSE (IF i \in keep THEN <<s[i]>> ELSE <<>>) \o SelectIdx(s, keep, i + 1)

Min(a, b) == IF a < b THEN a ELSE b

Bool(b) == <<"boolean", b>>

----------------------------------------------------------------------------
(* DataStore.prototype.prepareQuery *)

\* the first pass with re.flags left out of $regex
RewriteValueNoFlags(v) ==
    IF TypeTag(v) = "regexp"
    THEN Obj(<< <<"$regex", Arr(<<Str(v[2]), Str("")>>)>> >>)
    ELSE IF TypeofObject(v) /\ Truthy(v)
    THEN IF \E i \in 1..Len(Keys(v)) : Keys(v)[i] = "$ne" /\ ValueAt(v, i) = Null
         THEN Obj(<< <<"$ne", Undefined>> >>)
         ELSE v
    ELSE IF v = Null
    THEN Obj(<< <<"$exists", Bool(FALSE)>> >>)
    ELSE v

\* the first pass without the rewrite of a null value
RewriteValueNullKept(v) ==
    IF TypeTag(v) = "regexp"
    THEN Obj(<< <<"$regex", Arr(<<Str(v[2]), Str(v[3])>>)>> >>)
    ELSE IF TypeofObject(v) /\ Truthy(v)
    THEN IF \E i \in 1..Len(Keys(v)) : Keys(v)[i] = "$ne" /\ ValueAt(v, i) = Null
         THEN Obj(<< <<"$ne", Undefined>> >>)
         ELSE v
    ELSE v

\* the first pass: the value query[key] is left with
RewriteValue(v) ==
    IF TypeTag(v) = "regexp"
    THEN Obj(<< <<"$regex", Arr(<<Str(v[2]), Str(v[3])>>)>> >>)
    ELSE IF TypeofObject(v) /\ Truthy(v)
    THEN IF \E i \in 1..Len(Keys(v)) : Keys(v)[i] = "$ne" /\ ValueAt(v, i) = Null
         THEN Obj(<< <<"$ne", Undefined>> >>)
         ELSE v
    ELSE IF v = Null
    THEN Obj(<< <<"$exists", Bool(FALSE)>> >>)
    ELSE v

RewriteQuery(query) ==
    [i \in 1..Len(query) |-> <<query[i][1], RewriteValue(query[i][2])>>]

\* the expressions one field of the rewritten query contributes
FieldExpressions(field, v) ==
    IF Truthy(v) /\ TypeofObject(v)
    THEN [i \in 1..Len(Keys(v)) |->
              Obj(<< <<field, Obj(<< <<Keys(v)[i], ValueAt(v, i)>> >>)>> >>)]
    ELSE << Obj(<< <<field, v>> >>) >>

Expressions(query) ==
    Concat([i \in 1..Len(query) |-> FieldExpressions(query[i][1], query[i][2])])

prepareQuery(query) ==
    LET rewritten == RewriteQuery(query)
        expressions == Expressions(rewritten)
    IN  IF Len(expressions) > 1
        THEN << <<"$and", Arr(expressions)>> >>
        ELSE rewritten

----------------------------------------------------------------------------
(* The embedded engine (LokiJS 1.5.6) as the adapter uses it *)

\* the order of the strings the model compares
Collation == <<"blue", "green", "red", "yellow">>

StringRank(s) == CHOOSE i \in 1..Len(Collation) : Collation[i] = s

\* the class the engine's comparison helpers give an edge-case operand
EdgeClass(v) ==
    CASE TypeTag(v) \in {"undefined", "null"} -> 1
      [] v = Bool(FALSE) -> 3
      [] v = Bool(TRUE) -> 4
      [] v = Str("") -> 5
      [] OTHER -> 9

\* numbers order before strings
PlainLess(a, b) ==
    IF TypeTag(a) = "number" /\ TypeTag(b) = "number" THEN a[2] < b[2]
    ELSE IF TypeTag(a) = "number" THEN TRUE
    ELSE IF TypeTag(b) = "number" THEN FALSE
    ELSE StringRank(a[2]) < StringRank(b[2])

ltHelper(a, b, equal) ==
    IF EdgeClass(a) # 9 \/ EdgeClass(b) # 9
    THEN IF EdgeClass(a) = EdgeClass(b) THEN equal ELSE EdgeClass(a) < EdgeClass(b)
    ELSE IF a = b THEN equal ELSE PlainLess(a, b)

gtHelper(a, b, equal) ==
    IF EdgeClass(a) # 9 \/ EdgeClass(b) # 9
    THEN IF EdgeClass(a) = EdgeClass(b) THEN equal ELSE EdgeClass(a) > EdgeClass(b)
    ELSE IF a = b THEN equal ELSE PlainLess(b, a)

\* a === b: objects and arrays are never identical to a query literal
StrictEquals(a, b) == a = b /\ TypeTag(a) \notin {"object", "array", "regexp"}

\* RegExp.prototype.test for the patterns the model's filters use, on the
\* values the model's documents hold (none has an upper-case letter)
RegExpTest(source, flags, a) ==
    /\ TypeTag(a) = "string"
    /\ \/ source = "^g" /\ a[2] = "green"
       \/ source = "^G" /\ flags = "i" /\ a[2] = "green"
       \/ source = "^y" /\ a[2] = "yellow"

\* the operators of LokiOps the model's filters use
LokiOperators == {"$eq", "$ne", "$gt", "$gte", "$lt", "$lte", "$exists", "$regex"}

\* LokiOps[operator](a, b)
LokiOp(operator, a, b) ==
    CASE operator = "$eq" -> StrictEquals(a, b)
      [] operator = "$ne" -> ~StrictEquals(a, b)
      [] operator = "$gt" -> gtHelper(a, b, FALSE)
      [] operator = "$gte" -> gtHelper(a, b, TRUE)
      [] operator = "$lt" -> ltHelper(a, b, FALSE)
      [] operator = "$lte" -> ltHelper(a, b, TRUE)
      [] operator = "$exists" -> IF Truthy(b) THEN a # Undefined ELSE a = Undefined
      [] operator = "$regex" ->
            \* an array operand is turned into new RegExp(value[0], value[1])
            IF TypeTag(b) = "array" THEN RegExpTest(b[2][1][2], b[2][2][2], a)
            ELSE IF TypeTag(b) = "regexp" THEN RegExpTest(b[2], b[3], a)
            ELSE RegExpTest(b[2], "", a)
      [] OTHER -> FALSE

\* Resultset.find: whether the engine keeps a document under a query object
RECURSIVE Matches(_, _)
Matches(doc, query) ==
    IF Len(query) = 0 THEN TRUE
    ELSE IF Len(query) > 1
    THEN \A i \in 1..Len(query) : Matches(doc, <<query[i]>>)
    ELSE LET property == query[1][1]
             op == query[1][2]
         IN  IF property = "$and"
             THEN TypeTag(op) = "array" =>
                      \A i \in 1..Len(op[2]) : Matches(doc, op[2][i][2])
             ELSE IF property = "$or"
             THEN TypeTag(op) = "array" /\
                      \E i \in 1..Len(op[2]) : Matches(doc, op[2][i][2])
             ELSE IF op = Null \/ ~TypeofObject(op)
             THEN LokiOp("$eq", Get(doc, property), op)
             ELSE Len(Keys(op)) > 0 /\
                      LokiOp(Keys(op)[1], Get(doc, property), ValueAt(op, 1))

\* whether Resultset.find throws on the rows it is given: a sub-mapping
\* without a key, or with a key that is no operator, leaves LokiOps[operator]
\* undefined, and calling it on the first row is a TypeError.  findAnd stops
\* as soon as no row is left; findOr runs every branch on the same rows.
RECURSIVE FindThrows(_, _, _)
RECURSIVE AndThrows(_, _, _)

FindThrows(data, rows, query) ==
    IF Len(query) = 0 THEN FALSE
    ELSE IF Len(query) > 1
    THEN AndThrows(data, rows, [i \in 1..Len(query) |-> <<query[i]>>])
    ELSE LET property == query[1][1]
             op == query[1][2]
         IN  IF property = "$and"
             THEN TypeTag(op) = "array" /\
                      AndThrows(data, rows, [i \in 1..Len(op[2]) |-> op[2][i][2]])
             ELSE IF property = "$or"
             THEN TypeTag(op) = "array" /\
                      \E i \in 1..Len(op[2]) : FindThrows(data, rows, op[2][i][2])
             ELSE IF op = Null \/ ~TypeofObject(op)
             THEN FALSE
             ELSE /\ rows # {}
                  /\ \/ Len(Keys(op)) = 0
                     \/ Keys(op)[1] \notin LokiOperators

AndThrows(data, rows, expressions) ==
    IF expressions = <<>> \/ rows = {} THEN FALSE
    ELSE \/ FindThrows(data, rows, Head(expressions))
         \/ AndThrows(data, {i \in rows : Matches(data[i], Head(expressions))},
                      Tail(expressions))

\* chain().find(query).data(): the positions of the matching documents
Filtered(data, query) == {i \in 1..Len(data) : Matches(data[i], query)}

\* sortHelper
sortHelper(a, b, desc) ==
    IF a = b THEN 0
    ELSE IF ltHelper(a, b, FALSE) THEN (IF desc THEN 1 ELSE -1)
    ELSE IF gtHelper(a, b, FALSE) THEN (IF desc THEN -1 ELSE 1)
    ELSE 0

\* Array.prototype.sort with the engine's comparer (stable)
RECURSIVE InsertSorted(_, _, _, _)
InsertSorted(sorted, doc, property, desc) ==
    IF sorted = <<>> THEN <<doc>>
    ELSE IF sortHelper(Get(doc, property), Get(Head(sorted), property), desc) < 0
    THEN <<doc>> \o sorted
    ELSE <<Head(sorted)>> \o InsertSorted(Tail(sorted), doc, property, desc)

RECURSIVE simplesort(_, _, _)
simplesort(docs, property, desc) ==
    IF docs = <<>> THEN <<>>
    ELSE InsertSorted(simplesort(SubSeq(docs, 1, Len(docs) - 1), property, desc),
                      docs[Len(docs)], property, desc)

\* Resultset.offset and Resultset.limit
offset(docs, n) == SubSeq(docs, n + 1, Len(docs))
limit(docs, n) == SubSeq(docs, 1, Min(n, Len(docs)))

\* the documents at the positions `keep` of a collection's data, in data order
DocsAt(data, keep) == SelectIdx(data, keep, 1)

\* UniqueIndex.set: a value that is neither null nor undefined may be held by
\* one document only
Keyed(doc, field) ==
    field \in DOMAIN doc /\ TypeTag(doc[field]) \notin {"null", "undefined"}

DuplicateKey(data, doc, field) ==
    /\ Keyed(doc, field)
    /\ \E i \in 1..Len(data) : Keyed(data[i], field) /\ data[i][field] = doc[field]

\* Collection.insert(docs): every document gets the next sequence number and
\* is appended; a document that already carries $loki, or the value another
\* document holds for a unique index, makes the engine throw
RECURSIVE LokiInsert(_, _, _)
LokiInsert(coll, docs, done) ==
    IF docs = <<>> THEN [coll |-> coll, results |-> done, error |-> ""]
    ELSE IF "$loki" \in DOMAIN Head(docs)
    THEN [coll |-> coll, results |-> done,
          error |-> "Document is already in collection, please use update()"]
    ELSE IF \E k \in 1..Len(coll.unique) : DuplicateKey(coll.data, Head(docs), coll.unique[k])
    THEN [coll |-> [coll EXCEPT !.maxId = @ + 1], results |-> done,
          error |-> "Duplicate key for property"]
    ELSE LET obj == Head(docs) @@ ("$loki" :> Num(coll.maxId + 1))
         IN  LokiInsert([coll EXCEPT !.data = Append(@, obj), !.maxId = @ + 1],
                        Tail(docs), Append(done, obj))

\* Collection.update(docs): each document replaces the stored document that
\* has its sequence number, in place
LokiUpdate(coll, docs) ==
    [coll EXCEPT !.data =
        [i \in 1..Len(coll.data) |->
            IF \E k \in 1..Len(docs) : docs[k]["$loki"] = coll.data[i]["$loki"]
            THEN docs[CHOOSE k \in 1..Len(docs) :
                          docs[k]["$loki"] = coll.data[i]["$loki"]]
            ELSE coll.data[i]]]

\* Resultset.remove(): the filtered documents leave the collection
LokiRemove(coll, keep) ==
    [coll EXCEPT !.data = DocsAt(coll.data, (1..Len(coll.data)) \ keep)]

\* the collection a new name is given by database.addCollection
EmptyCollection == [data |-> <<>>, maxId |-> 0, binaryIndices |-> <<>>, unique |-> <<>>]

\* Collection.clear(): the documents go and the sequence restarts; the
\* definitions of the indices stay
LokiClear(coll) == [coll EXCEPT !.data = <<>>, !.maxId = 0]

\* Collection.ensureIndex(property)
ensureIndex(coll, property) ==
    IF property \in Range(coll.binaryIndices) THEN coll
    ELSE [coll EXCEPT !.binaryIndices = Append(@, property)]

\* Collection.ensureUniqueIndex(field): the index is registered and every
\* document is set on it; two documents with one value make set throw
ensureUniqueIndex(coll, field) ==
    [coll |-> IF field \in Range(coll.unique) THEN coll
              ELSE [coll EXCEPT !.unique = Append(@, field)],
     error |-> \E i \in 1..Len(coll.data) :
                   DuplicateKey(SubSeq(coll.data, 1, i - 1), coll.data[i], field)]

----------------------------------------------------------------------------
(* lib/update.js, the update interpreter *)

SupportedOperators == {"$set", "$inc", "$push"}

\* one operator applied to one field of a document
ApplyOperator(operator, doc, field, operand) ==
    CASE operator = "$set" -> (field :> operand) @@ doc
      [] operator = "$inc" ->
            IF field \in DOMAIN doc
            THEN (field :> Num(doc[field][2] + operand[2])) @@ doc
            ELSE (field :> operand) @@ doc
      [] operator = "$push" ->
            IF field \in DOMAIN doc
            THEN (field :> Arr(Append(doc[field][2], operand))) @@ doc
            ELSE (field :> Arr(<<operand>>)) @@ doc

\* one operator applied to every field of its operand mapping
RECURSIVE ApplyFields(_, _, _)
ApplyFields(operator, doc, fields) ==
    IF fields = <<>> THEN doc
    ELSE ApplyFields(operator,
                     ApplyOperator(operator, doc, Head(fields)[1], Head(fields)[2]),
                     Tail(fields))

\* the whole update expression applied to one document
RECURSIVE ApplyUpdate(_, _)
ApplyUpdate(update, doc) ==
    IF update = <<>> THEN doc
    ELSE ApplyUpdate(Tail(update), ApplyFields(Head(update)[1], doc, Head(update)[2][2]))

\* Update.prototype.update(docs): an operator outside the supported set fails
UpdateFn(update, docs) ==
    IF \E i \in 1..Len(update) : update[i][1] \notin SupportedOperators
    THEN [error |-> "UnsupportedOperator", docs |-> docs]
    ELSE [error |-> "", docs |-> [i \in 1..Len(docs) |-> ApplyUpdate(update, docs[i])]]

----------------------------------------------------------------------------
(* DataStore.prototype.applyFieldsFilterToResults and                      *)
(* convertFieldsProjection.  The key of a projection is the list of nodes  *)
(* its dot notation names ("data.age" is <<"data", "age">>).               *)

TypeError == <<"TypeError">>

\* object[key], and object[key] = value, on the pairs of an object
Lookup(pairs, key) ==
    IF \E i \in 1..Len(pairs) : pairs[i][1] = key
    THEN pairs[CHOOSE i \in 1..Len(pairs) : pairs[i][1] = key][2]
    ELSE Undefined

Assign(pairs, key, value) ==
    IF \E i \in 1..Len(pairs) : pairs[i][1] = key
    THEN [i \in 1..Len(pairs) |-> IF pairs[i][1] = key THEN <<key, value>> ELSE pairs[i]]
    ELSE Append(pairs, <<key, value>>)

\* the walk along the nodes of one key: pointer[node] = pointer[node] || {},
\* then the assignment of the leaf; a property cannot be created on a number
RECURSIVE SetPath(_, _, _)
SetPath(pointer, nodes, value) ==
    IF TypeTag(pointer) # "object" THEN TypeError
    ELSE IF Len(nodes) = 1 THEN Obj(Assign(pointer[2], nodes[1], value))
    ELSE LET current == Lookup(pointer[2], nodes[1])
             child == IF Truthy(current) THEN current ELSE Obj(<<>>)
             below == SetPath(child, Tail(nodes), value)
         IN  IF below = TypeError THEN TypeError
             ELSE Obj(Assign(pointer[2], nodes[1], below))

RECURSIVE ConvertFrom(_, _)
ConvertFrom(result, projection) ==
    IF projection = <<>> \/ result = TypeError THEN result
    ELSE ConvertFrom(SetPath(result, Head(projection)[1], Head(projection)[2]),
                     Tail(projection))

convertFieldsProjection(projection) == ConvertFrom(Obj(<<>>), projection)

\* a converted projection handed to applyFieldsFilterToResults again: each of
\* its keys is a single node
Nested(projection) ==
    IF TypeTag(projection) = "object"
    THEN Obj([i \in 1..Len(projection[2]) |->
                 <<(<<projection[2][i][1]>>), projection[2][i][2]>>])
    ELSE projection

\* an array of field names is a projection that marks each name with 1
FlattenedProjection(fields) ==
    IF TypeTag(fields) = "array"
    THEN [i \in 1..Len(fields[2]) |-> <<fields[2][i], Num(1)>>]
    ELSE fields[2]

\* the identifier treated as any other field
KeepsLikeAnyField(field, marked, isExclusion) ==
    \/ (isExclusion /\ marked = Undefined)
    \/ (~isExclusion /\ marked = Num(1))

\* every marked field copied as it is in inclusion mode
KeepsMarked(field, marked, isExclusion) ==
    \/ field = "_id"
    \/ (isExclusion /\ marked = Undefined)
    \/ (~isExclusion /\ Truthy(marked))

\* a field the projection does not name copied in either mode
KeepsUnnamed(field, marked, isExclusion) ==
    \/ field = "_id"
    \/ marked = Undefined
    \/ (~isExclusion /\ marked = Num(1))

\* whether a field is copied as it is
Keeps(field, marked, isExclusion) ==
    \/ field = "_id"
    \/ (isExclusion /\ marked = Undefined)
    \/ (~isExclusion /\ marked = Num(1))

\* the fields of one document the projection keeps
RECURSIVE FilterDocument(_, _, _, _)
RECURSIVE FilterValue(_, _)

FilterDocument(projection, isExclusion, pairs, result) ==
    IF pairs = <<>> \/ result = TypeError THEN result
    ELSE LET field == Head(pairs)[1]
             marked == Lookup(projection, field)
             next ==
                 IF Keeps(field, marked, isExclusion)
                 THEN Obj(Append(result[2], Head(pairs)))
                 ELSE IF ~isExclusion /\ Truthy(marked)
                 THEN LET nested == FilterValue(Nested(marked), Head(pairs)[2])
                      IN  IF nested = TypeError THEN TypeError
                          ELSE Obj(Append(result[2], <<field, nested>>))
                 ELSE result
         IN  FilterDocument(projection, isExclusion, Tail(pairs), next)

\* applyFieldsFilterToResults on a value of a document: a nested document, an
\* array of them, or a value without keys
FilterValue(fields, documents) ==
    IF ~Truthy(fields) \/ Len(Keys(fields)) = 0 THEN documents
    ELSE LET converted == convertFieldsProjection(FlattenedProjection(fields))
         IN  IF converted = TypeError THEN TypeError
             ELSE LET isExclusion == \E i \in 1..Len(converted[2]) :
                                          converted[2][i][2] = Num(0)
                      One(document) ==
                          IF TypeTag(document) = "object"
                          THEN FilterDocument(converted[2], isExclusion,
                                              document[2], Obj(<<>>))
                          ELSE IF TypeTag(document) \in {"null", "undefined"}
                          THEN TypeError
                          ELSE Obj(<<>>)
                  IN  IF TypeTag(documents) = "array"
                      THEN IF \E i \in 1..Len(documents[2]) : One(documents[2][i]) = TypeError
                           THEN TypeError
                           ELSE Arr([i \in 1..Len(documents[2]) |-> One(documents[2][i])])
                      ELSE One(documents)

\* a stored document as an object value, and back
RECURSIVE SetToSeq(_)
SetToSeq(set) ==
    IF set = {} THEN <<>>
    ELSE LET x == CHOOSE y \in set : TRUE IN <<x>> \o SetToSeq(set \ {x})

DocToObj(doc) ==
    LET fields == SetToSeq(DOMAIN doc)
    IN  Obj([i \in 1..Len(fields) |-> <<fields[i], doc[fields[i]]>>])

ObjToDoc(object) ==
    [field \in {object[2][i][1] : i \in 1..Len(object[2])} |-> Lookup(object[2], field)]

\* the projection with the first of the documents left out of the map
applyFieldsFilterToResultsRest(fields, documents) ==
    LET filtered == FilterValue(fields, Arr([i \in 1..Len(documents) |->
                                                 DocToObj(documents[i])]))
    IN  IF filtered = TypeError THEN [error |-> TRUE, documents |-> <<>>]
        ELSE IF ~Truthy(fields) \/ Len(Keys(fields)) = 0
        THEN [error |-> FALSE, documents |-> documents]
        ELSE [error |-> FALSE,
              documents |-> [i \in 1..(Len(filtered[2]) - 1) |->
                                ObjToDoc(filtered[2][i + 1])]]

applyFieldsFilterToResults(fields, documents) ==
    LET filtered == FilterValue(fields, Arr([i \in 1..Len(documents) |->
                                                 DocToObj(documents[i])]))
    IN  IF filtered = TypeError THEN [error |-> TRUE, documents |-> <<>>]
        ELSE [error |-> FALSE,
              documents |-> [i \in 1..Len(filtered[2]) |-> ObjToDoc(filtered[2][i])]]

----------------------------------------------------------------------------
(* DataStore.prototype.getSortParameters and the engine work of find *)

\* the sort property taken from a field of the documents when none is asked
getSortParametersByField(options) ==
    IF Truthy(Get(options, "sort"))
    THEN LET property == Keys(options["sort"])[1]
         IN  [property |-> property,
              descending |-> ValueAt(options["sort"], 1) = Num(-1)]
    ELSE [property |-> "age", descending |-> FALSE]

\* descending for every value of the key other than 1
getSortParametersNotOne(options) ==
    IF Truthy(Get(options, "sort"))
    THEN LET property == Keys(options["sort"])[1]
         IN  [property |-> property,
              descending |-> ValueAt(options["sort"], 1) # Num(1)]
    ELSE [property |-> "$loki", descending |-> FALSE]

getSortParameters(options) ==
    IF Truthy(Get(options, "sort"))
    THEN LET property == Keys(options["sort"])[1]
         IN  [property |-> property,
              descending |-> ValueAt(options["sort"], 1) = Num(-1)]
    ELSE [property |-> "$loki", descending |-> FALSE]

\* options.skip || 0 and options.limit || 100
SkipOf(options) ==
    IF Truthy(Get(options, "skip")) THEN options["skip"][2] ELSE DefaultSkip
LimitOf(options) ==
    IF Truthy(Get(options, "limit")) THEN options["limit"][2] ELSE DefaultLimit

\* find counting the documents it returns
FindCallbackCountsPage(coll, query, options) ==
    LET sort == getSortParameters(options)
        matching == DocsAt(coll.data, Filtered(coll.data, query))
        results == limit(offset(simplesort(matching, sort.property, sort.descending),
                                SkipOf(options)),
                         LimitOf(options))
        projected == applyFieldsFilterToResults(Get(options, "fields"), results)
    IN  IF FindThrows(coll.data, 1..Len(coll.data), query) \/ projected.error
        THEN <<"error", "TypeError">>
        ELSE <<"found", projected.documents, Len(results)>>

\* the callback of find: what the call resolves with
FindCallback(coll, query, options) ==
    LET sort == getSortParameters(options)
        matching == DocsAt(coll.data, Filtered(coll.data, query))
        count == Len(matching)
        results == limit(offset(simplesort(matching, sort.property, sort.descending),
                                SkipOf(options)),
                         LimitOf(options))
        projected == applyFieldsFilterToResults(Get(options, "fields"), results)
    IN  IF FindThrows(coll.data, 1..Len(coll.data), query) \/ projected.error
        THEN <<"error", "TypeError">>
        ELSE <<"found", projected.documents, count>>

----------------------------------------------------------------------------
(* The inputs the operations are called with *)

Uuid(n) == <<"uuid", n>>

DatabaseNames == {"content", "secondary"}
CollectionNames == {"users"}

Ernie == [colour |-> Str("yellow"), age |-> Num(2)]
Oscar == [colour |-> Str("green"), age |-> Num(1)]
BigBird == [colour |-> Str("yellow")]
Elmo == [_id |-> Str("elmo"), colour |-> Str("red"), age |-> Num(1)]
Zero == [_id |-> Num(0), colour |-> Str("green")]
Painter == [colour |-> Str("green"), colours |-> Arr(<<Str("green")>>)]

\* insert takes one document or an array of documents
InsertInputs ==
    {<<Ernie>>, <<Oscar>>, <<BigBird>>, <<Elmo>>, <<Zero>>, <<Painter>>,
     <<Ernie, Oscar>>, <<Oscar, BigBird, Ernie>>}

Queries ==
    {<<>>,
     << <<"colour", Str("green")>> >>,
     << <<"colour", Str("yellow")>>, <<"age", Num(2)>> >>,
     << <<"age", Obj(<< <<"$gt", Num(1)>> >>)>> >>,
     << <<"age", Obj(<< <<"$gt", Num(0)>>, <<"$lte", Num(2)>> >>)>> >>}

Updates ==
    {<< <<"$set", Obj(<< <<"colour", Str("yellow")>> >>)>> >>,
     << <<"$inc", Obj(<< <<"age", Num(1)>> >>)>> >>,
     << <<"$push", Obj(<< <<"colours", Str("red")>> >>)>> >>,
     << <<"$set", Obj(<< <<"colour", Str("green")>> >>)>>,
        <<"$inc", Obj(<< <<"age", Num(2)>> >>)>> >>,
     << <<"$rename", Obj(<< <<"colour", Str("blue")>> >>)>> >>}

EmptyObject == [k \in {} |-> k]
NoOptions == EmptyObject

FindOptions ==
    {NoOptions,
     [limit |-> Num(1)],
     [limit |-> Num(0)],
     [skip |-> Num(1)],
     [skip |-> Num(1), limit |-> Num(2)]}

\* a document with a nested document
ErnieNested ==
    [colour |-> Str("yellow"),
     data |-> Obj(<< <<"age", Num(2)>>, <<"colour", Str("yellow")>> >>)]

\* the documents a caller stores before reading them back
StoredInputs == {<<Ernie, Oscar, BigBird>>, <<ErnieNested, Elmo, Oscar>>}

\* one field of a filter, a filter of one field, an object of one key
Field(field, value) == <<field, value>>
Single(field, value) == << Field(field, value) >>
Sub(operator, operand) == Obj(Single(operator, operand))

\* the filters find is called with
Filters ==
    {<<>>,
     Single("colour", Str("green")),
     << Field("colour", Str("yellow")), Field("age", Num(2)) >>,
     Single("age", Obj(<< Field("$gt", Num(0)), Field("$lte", Num(2)) >>)),
     << Field("colour", Str("green")),
        Field("age", Obj(<< Field("$gte", Num(1)), Field("$lt", Num(2)) >>)) >>,
     Single("colour", RegExp("^g", "")),
     Single("colour", RegExp("^G", "i")),
     Single("colour", RegExp("^G", "")),
     << Field("colour", RegExp("^y", "")), Field("age", Num(2)) >>,
     Single("age", Sub("$ne", Null)),
     Single("age", Obj(<< Field("$gt", Num(1)), Field("$ne", Null) >>)),
     Single("age", Obj(<< Field("$ne", Null), Field("$lt", Num(2)) >>)),
     << Field("colour", Str("yellow")), Field("age", Sub("$ne", Null)) >>,
     Single("age", Null),
     << Field("colour", Str("yellow")), Field("age", Null) >>,
     << Field("colour", Str("green")), Field("age", Obj(<<>>)) >>,
     Single("$and", Arr(<< Obj(Single("age", Sub("$gt", Num(1)))),
                        Obj(Single("colour", Str("yellow"))) >>)),
     Single("$or", Arr(<< Obj(Single("age", Sub("$gte", Num(2)))),
                       Obj(Single("colour", Str("green"))) >>)),
     Single("$and", Arr(<< Obj(Single("colour", Str("green"))) >>))}

\* a projection: the key of a field is the list of the nodes of its path
Path(nodes, marker) == <<nodes, Num(marker)>>

Projections ==
    {Arr(<< <<"colour">>, <<"age">> >>),
     Arr(<< <<"data", "age">> >>),
     Obj(<< Path(<<"colour">>, 1) >>),
     Obj(<< Path(<<"_id">>, 1), Path(<<"age">>, 1) >>),
     Obj(<< Path(<<"data", "age">>, 1) >>),
     Obj(<< Path(<<"colour">>, 1), Path(<<"data", "age">>, 1) >>),
     Obj(<< Path(<<"data", "age">>, 1), Path(<<"data", "colour">>, 1) >>),
     Obj(<< Path(<<"colour">>, 0) >>),
     Obj(<< Path(<<"colour">>, 0), Path(<<"age">>, 0) >>),
     Obj(<< Path(<<"_id">>, 0) >>),
     Obj(<< Path(<<"_id">>, 0), Path(<<"colour">>, 0) >>),
     Obj(<< Path(<<"data", "age">>, 0) >>),
     Obj(<< Path(<<"colour">>, 0), Path(<<"data", "age">>, 0) >>),
     Obj(<< Path(<<"data">>, 1), Path(<<"data", "age">>, 1) >>),
     Obj(<< Path(<<"data", "age">>, 1), Path(<<"data">>, 1) >>),
     Obj(<< Path(<<"data">>, 0), Path(<<"data", "age">>, 0) >>),
     Obj(<< Path(<<"data", "age">>, 0), Path(<<"data">>, 0) >>),
     Obj(<<>>)}

Sorts ==
    {Obj(Single("age", Num(1))), Obj(Single("age", Num(-1))), Obj(Single("age", Num(0))),
     Obj(Single("colour", Num(1))), Obj(Single("colour", Num(-1))),
     Obj(Single("age", Str("-1"))),
     Obj(<< Field("colour", Num(-1)), Field("age", Num(1)) >>)}

\* the options find is called with
QueryOptions ==
    {NoOptions}
    \cup {[fields |-> fields] : fields \in Projections}
    \cup {[sort |-> sort] : sort \in Sorts}
    \cup {[sort |-> Obj(Single("age", Num(-1))), skip |-> Num(1), limit |-> Num(1)]}

\* the inputs of callers that do not wait for one call before the next
OverlapInserts == {<<Oscar>>, <<Ernie, BigBird>>}
OverlapQueries == {<< <<"colour", Str("green")>> >>}
OverlapOptions == {NoOptions}
OverlapUpdates ==
    {<< <<"$inc", Obj(<< <<"age", Num(1)>> >>)>> >>,
     << <<"$rename", Obj(<< <<"colour", Str("blue")>> >>)>> >>}

----------------------------------------------------------------------------
(* The calls in flight.  A call is a record                                *)
(*   op, collection : the operation and the collection it names;           *)
(*   given : the arguments as the caller passed them;                      *)
(*   arg : the arguments after the synchronous part of the method has run  *)
(*         (identifiers assigned, query prepared);                         *)
(*   phase : "waitDb"    waiting for this.database (inside getCollection), *)
(*           "waitColl"  getCollection has run, the operation's callback   *)
(*                       is queued,                                        *)
(*           "waitClose" close's callback on this.database is queued,      *)
(*           "closing"   the engine holds the callback close gave it,      *)
(*           "resolved", "rejected"  the call's promise is settled,        *)
(*           "orphaned"  the chain the promise depended on has ended       *)
(*                       without resolve or reject being called;           *)
(*   result : what the promise was settled with.                           *)
(***************************************************************************)

Settled == {"resolved", "rejected"}
Ended == {"resolved", "rejected", "orphaned"}

NoResult == <<"none">>
Failure(message) == <<"error", message>>

NewCall(op, collection, given, arg) ==
    IF database.id = 0
    THEN \* this.database is undefined: this.database.then throws in the executor
         [op |-> op, collection |-> collection, given |-> given, arg |-> arg,
          phase |-> "rejected", result |-> Failure("TypeError")]
    ELSE [op |-> op, collection |-> collection, given |-> given, arg |-> arg,
          phase |-> "waitDb", result |-> NoResult]

\* the slot a new call takes: overlapping callers keep every call, a caller
\* that awaits each call keeps the last one
Put(slot, call) ==
    IF slot > Len(calls) THEN Append(calls, call) ELSE [calls EXCEPT ![slot] = call]

----------------------------------------------------------------------------
(* The module: a call of the exported function gives the instance made by  *)
(* the first call (instance = instance || new DataStore(...)).  The        *)
(* variables describe the facade TheFacade.                                *)

NoInstance == "undefined"
TheFacade == "DataStore"

\* the exported function when the module holds `held`: the facade it returns
Factory(held) == IF held # NoInstance THEN held ELSE TheFacade

\* the adapters two calls of the exported function give
Adapters == <<Factory(NoInstance), Factory(Factory(NoInstance))>>

----------------------------------------------------------------------------
(* The module's instance and reset.  `built` keeps, for each facade made   *)
(* by new DataStore, the fields the constructor and connect assign:        *)
(* config (the options, or the configuration file's when none are given),  *)
(* readyState, and database (this.database: "undefined", or the state of   *)
(* the promise connect made).                                              *)

\* module.exports = function() { instance = instance || new DataStore(...arguments);
\* return instance }
FileStoreAdapter(options) ==
    LET made == <<"DataStore", "DataStore2", "DataStore3", "DataStore4",
                  "DataStore5">>[Cardinality(DOMAIN built) + 1]
        facade == IF instance # NoInstance THEN instance ELSE made
    IN  /\ Len(handed) < MaxObtained
        /\ instance' = facade
        /\ built' = IF instance # NoInstance THEN built
                    ELSE (made :> [config |-> IF options = "undefined" THEN "config.get()"
                                             ELSE options,
                                   readyState |-> STATE_DISCONNECTED,
                                   database |-> "undefined"]) @@ built
        /\ handed' = Append(handed, [options |-> options, held |-> instance,
                                     facade |-> facade])
        /\ UNCHANGED <<directoryCreation, fileExists, database, name, readyState,
                       opened, emitted, returned, collections, calls, issued, uuids,
                       closes>>

\* reset putting the instance it drops back to the state of a new facade
resetDisconnecting ==
    /\ instance' = NoInstance
    /\ built' = [f \in DOMAIN built |->
                    IF f = instance
                    THEN [built[f] EXCEPT !.readyState = STATE_DISCONNECTED,
                                          !.database = "undefined"]
                    ELSE built[f]]
    /\ UNCHANGED <<directoryCreation, fileExists, database, name, readyState,
                   opened, emitted, returned, collections, calls, issued, uuids,
                   closes, handed>>

\* module.exports.reset = function() { instance = undefined }
reset ==
    /\ instance' = NoInstance
    /\ UNCHANGED <<directoryCreation, fileExists, database, name, readyState,
                   opened, emitted, returned, collections, calls, issued, uuids,
                   closes, built, handed>>

\* connect on a facade the module gave: this.database = this.database || ...
ConnectOn(f) ==
    /\ f \in DOMAIN built
    /\ built[f].database = "undefined"
    /\ built' = [built EXCEPT ![f].database = "pending"]
    /\ UNCHANGED <<directoryCreation, fileExists, database, name, readyState,
                   opened, emitted, returned, collections, calls, issued, uuids,
                   closes, instance, handed>>

\* the engine that facade opened reports loaded
LoadedOn(f) ==
    /\ f \in DOMAIN built
    /\ built[f].database = "pending"
    /\ built' = [built EXCEPT ![f].database = "resolved",
                              ![f].readyState = STATE_CONNECTED]
    /\ UNCHANGED <<directoryCreation, fileExists, database, name, readyState,
                   opened, emitted, returned, collections, calls, issued, uuids,
                   closes, instance, handed>>

----------------------------------------------------------------------------
(* The constructor and connect *)

Init ==
    /\ directoryCreation = "pending"
    /\ fileExists \in BOOLEAN
    /\ database = [id |-> 0, state |-> "none", arg |-> "", error |-> ""]
    /\ name = ""
    /\ readyState = STATE_DISCONNECTED
    /\ opened = 0
    /\ emitted = 0
    /\ returned = << >>
    /\ collections = EmptyObject
    /\ calls = << >>
    /\ issued = 0
    /\ uuids = 0
    /\ closes = 0
    /\ instance = NoInstance
    /\ built = EmptyObject
    /\ handed = << >>

\* the callback of mkdirp
MkdirpCallback(err) ==
    /\ directoryCreation = "pending"
    /\ directoryCreation' = IF err THEN "rejected" ELSE "resolved"
    /\ UNCHANGED <<fileExists, database, name, readyState, opened, emitted, returned,
                   collections, calls, issued, uuids,
                   instance, built, handed, closes>>

\* connect without the `this.database ||` guard: every call starts a new chain
ConnectPromiseAlways(databaseName) ==
    [id |-> database.id + 1, state |-> "waitDir", arg |-> databaseName, error |-> ""]

\* connect starting a new chain once the promise it holds is rejected
ConnectPromiseRetrying(databaseName) ==
    IF database.id # 0 /\ database.state # "rejected" THEN database
    ELSE [id |-> database.id + 1, state |-> "waitDir", arg |-> databaseName, error |-> ""]

\* this.database = this.database || this.directoryCreation.then(...)
ConnectPromise(databaseName) ==
    IF database.id # 0 THEN database
    ELSE [id |-> 1, state |-> "waitDir", arg |-> databaseName, error |-> ""]

connect(databaseName) ==
    /\ Len(returned) < MaxConnects
    /\ database' = ConnectPromise(databaseName)
    /\ returned' = Append(returned, [database |-> databaseName,
                                     found |-> database.state,
                                     promise |-> database'.id])
    /\ UNCHANGED <<directoryCreation, fileExists, name, readyState, opened, emitted,
                   collections, calls, issued, uuids,
                   instance, built, handed, closes>>

\* the callback chained on directoryCreation: fs.stat is called, or the
\* rejection of directoryCreation passes to this.database
DirectoryCreated ==
    /\ database.state = "waitDir"
    /\ directoryCreation # "pending"
    /\ IF directoryCreation = "resolved"
       THEN /\ name' = database.arg
            /\ database' = [database EXCEPT !.state = "stat"]
       ELSE /\ database' = [database EXCEPT !.state = "rejected", !.error = "mkdirp"]
            /\ UNCHANGED name
    /\ UNCHANGED <<directoryCreation, fileExists, readyState, opened, emitted, returned,
                   collections, calls, issued, uuids,
                   instance, built, handed, closes>>

\* new Loki(this.databasePath, {autoload: true, ...})
OpenEngine ==
    /\ opened' = opened + 1
    /\ database' = [database EXCEPT !.state = "loading"]

\* the callback of fs.stat writing the empty file whatever stat reports
StatCallbackWriting ==
    /\ database.state = "stat"
    /\ database' = [database EXCEPT !.state = "write"]
    /\ UNCHANGED <<directoryCreation, fileExists, name, readyState, opened, emitted,
                   returned, collections, calls, issued, uuids,
                   instance, built, handed, closes>>

\* the callback of fs.stat
StatCallback ==
    /\ database.state = "stat"
    /\ IF fileExists
       THEN OpenEngine
       ELSE /\ database' = [database EXCEPT !.state = "write"]
            /\ UNCHANGED opened
    /\ UNCHANGED <<directoryCreation, fileExists, name, readyState, emitted, returned,
                   collections, calls, issued, uuids,
                   instance, built, handed, closes>>

\* the callback of fs.writeFile
WriteFileCallback(err) ==
    /\ database.state = "write"
    /\ IF err
       THEN /\ database' = [database EXCEPT !.state = "rejected", !.error = "writeFile"]
            /\ UNCHANGED <<fileExists, opened>>
       ELSE /\ fileExists' = TRUE
            /\ OpenEngine
    /\ UNCHANGED <<directoryCreation, name, readyState, emitted, returned,
                   collections, calls, issued, uuids,
                   instance, built, handed, closes>>

\* the 'loaded' handler emitting on every connect call made so far
LoadedPerCall ==
    /\ database.state = "loading"
    /\ readyState' = STATE_CONNECTED
    /\ emitted' = emitted + Len(returned)
    /\ database' = [database EXCEPT !.state = "resolved"]
    /\ UNCHANGED <<directoryCreation, fileExists, name, opened, returned,
                   collections, calls, issued, uuids,
                   instance, built, handed, closes>>

\* the engine's 'loaded' event
Loaded ==
    /\ database.state = "loading"
    /\ readyState' = STATE_CONNECTED
    /\ emitted' = emitted + 1
    /\ database' = [database EXCEPT !.state = "resolved"]
    /\ UNCHANGED <<directoryCreation, fileExists, name, opened, returned,
                   collections, calls, issued, uuids,
                   instance, built, handed, closes>>

----------------------------------------------------------------------------
(* The operations: the synchronous part of each method *)

\* document._id = document._id || uuid.v4(), for each document in turn
RECURSIVE AssignIds(_, _)
AssignIds(docs, drawn) ==
    IF docs = <<>> THEN [docs |-> <<>>, drawn |-> drawn]
    ELSE IF Truthy(Get(Head(docs), "_id"))
    THEN LET rest == AssignIds(Tail(docs), drawn)
         IN  [docs |-> <<Head(docs)>> \o rest.docs, drawn |-> rest.drawn]
    ELSE LET rest == AssignIds(Tail(docs), drawn + 1)
         IN  [docs |-> <<("_id" :> Uuid(drawn + 1)) @@ Head(docs)>> \o rest.docs,
              drawn |-> rest.drawn]

insert(slot, collection, data) ==
    LET assigned == AssignIds(data, uuids)
    IN  /\ calls' = Put(slot, NewCall("insert", collection, data, assigned.docs))
        /\ uuids' = assigned.drawn
        /\ issued' = issued + 1
        /\ UNCHANGED <<directoryCreation, fileExists, database, name, readyState,
                       opened, emitted, returned, collections,
                       instance, built, handed, closes>>

find(slot, collection, query, options) ==
    /\ calls' = Put(slot, NewCall("find", collection,
                                  [query |-> query, options |-> options],
                                  [query |-> prepareQuery(query), options |-> options]))
    /\ issued' = issued + 1
    /\ UNCHANGED <<directoryCreation, fileExists, database, name, readyState,
                   opened, emitted, returned, collections, uuids,
                   instance, built, handed, closes>>

update(slot, collection, query, upd) ==
    /\ calls' = Put(slot, NewCall("update", collection,
                                  [query |-> query, update |-> upd],
                                  [query |-> prepareQuery(query), update |-> upd]))
    /\ issued' = issued + 1
    /\ UNCHANGED <<directoryCreation, fileExists, database, name, readyState,
                   opened, emitted, returned, collections, uuids,
                   instance, built, handed, closes>>

delete(slot, collection, query) ==
    /\ calls' = Put(slot, NewCall("delete", collection, [query |-> query],
                                  [query |-> prepareQuery(query)]))
    /\ issued' = issued + 1
    /\ UNCHANGED <<directoryCreation, fileExists, database, name, readyState,
                   opened, emitted, returned, collections, uuids,
                   instance, built, handed, closes>>

----------------------------------------------------------------------------
(* The operations: the callbacks, in the order the promise jobs run them *)

\* getCollection with addCollection called whether or not the name is known
getCollectionAdding(i) ==
    /\ i \in 1..Len(calls)
    /\ calls[i].phase = "waitDb"
    /\ database.state = "resolved"
    /\ \A j \in 1..(i - 1) : calls[j].phase # "waitDb"
    /\ collections' = [c \in DOMAIN collections \cup {calls[i].collection} |->
                          IF c = calls[i].collection THEN EmptyCollection
                          ELSE collections[c]]
    /\ calls' = [calls EXCEPT ![i].phase = "waitColl"]
    /\ UNCHANGED <<directoryCreation, fileExists, database, name, readyState,
                   opened, emitted, returned, issued, uuids,
                   instance, built, handed, closes>>

\* getCollection's callback on this.database: the collection is created when
\* the database has none of that name
getCollection(i) ==
    /\ i \in 1..Len(calls)
    /\ calls[i].phase = "waitDb"
    /\ database.state = "resolved"
    /\ \A j \in 1..(i - 1) : calls[j].phase # "waitDb"
    /\ collections' = IF calls[i].collection \in DOMAIN collections
                      THEN collections
                      ELSE (calls[i].collection :> EmptyCollection) @@ collections
    /\ calls' = [calls EXCEPT ![i].phase = "waitColl"]
    /\ UNCHANGED <<directoryCreation, fileExists, database, name, readyState,
                   opened, emitted, returned, issued, uuids,
                   instance, built, handed, closes>>

\* this.database is rejected: find's catch rejects the call; insert, update
\* and delete chain no rejection handler, so their promise is never settled
RejectedPhase(op) == IF op = "find" THEN "rejected" ELSE "orphaned"

DatabaseRejected(i) ==
    /\ i \in 1..Len(calls)
    /\ calls[i].phase = "waitDb"
    /\ database.state = "rejected"
    /\ calls' = [calls EXCEPT ![i].phase = RejectedPhase(calls[i].op),
                              ![i].result = IF RejectedPhase(calls[i].op) = "rejected"
                                            THEN Failure(database.error)
                                            ELSE NoResult]
    /\ UNCHANGED <<directoryCreation, fileExists, database, name, readyState,
                   opened, emitted, returned, collections, issued, uuids,
                   instance, built, handed, closes>>

\* the callback of a call is the next promise job to run
Runs(i, op) ==
    /\ i \in 1..Len(calls)
    /\ calls[i].op = op
    /\ calls[i].phase = "waitColl"
    /\ \A j \in 1..(i - 1) : calls[j].phase \notin {"waitDb", "waitColl"}

FindRun(i) ==
    /\ Runs(i, "find")
    /\ LET outcome == FindCallback(collections[calls[i].collection],
                                   calls[i].arg.query, calls[i].arg.options)
       IN  calls' = [calls EXCEPT
                        ![i].phase = IF TypeTag(outcome) = "error"
                                     THEN "rejected" ELSE "resolved",
                        ![i].result = outcome]
    /\ UNCHANGED <<directoryCreation, fileExists, database, name, readyState,
                   opened, emitted, returned, collections, issued, uuids,
                   instance, built, handed, closes>>

\* the callback of insert
InsertCallback(coll, data) ==
    LET done == LokiInsert(coll, data, <<>>)
    IN  [coll |-> done.coll,
         phase |-> IF done.error = "" THEN "resolved" ELSE "rejected",
         result |-> IF done.error = "" THEN <<"docs", done.results>>
                    ELSE Failure(done.error)]

\* the callback of update without collection.update(results)
UpdateCallbackNoWriteBack(coll, query, upd) ==
    LET results == DocsAt(coll.data, Filtered(coll.data, query))
        updated == UpdateFn(upd, results)
    IN  IF FindThrows(coll.data, 1..Len(coll.data), query) \/ updated.error # ""
        THEN [coll |-> coll, phase |-> "orphaned", result |-> NoResult]
        ELSE [coll |-> coll, phase |-> "resolved",
              result |-> <<"matched", Len(updated.docs)>>]

\* the callback of update fetching with chain().find() and no query
UpdateCallbackAll(coll, query, upd) ==
    LET results == coll.data
        updated == UpdateFn(upd, results)
    IN  IF FindThrows(coll.data, 1..Len(coll.data), query) \/ updated.error # ""
        THEN [coll |-> coll, phase |-> "orphaned", result |-> NoResult]
        ELSE [coll |-> LokiUpdate(coll, updated.docs), phase |-> "resolved",
              result |-> <<"matched", Len(updated.docs)>>]

\* the callback of update without results = updateFn.update(results)
UpdateCallbackNoApply(coll, query, upd) ==
    LET results == DocsAt(coll.data, Filtered(coll.data, query))
    IN  [coll |-> LokiUpdate(coll, results), phase |-> "resolved",
         result |-> <<"matched", Len(results)>>]

\* the callback of update
UpdateCallback(coll, query, upd) ==
    LET results == DocsAt(coll.data, Filtered(coll.data, query))
        updated == UpdateFn(upd, results)
    IN  IF FindThrows(coll.data, 1..Len(coll.data), query) \/ updated.error # ""
        THEN \* the throw leaves the callback: no catch, no reject
             [coll |-> coll, phase |-> "orphaned", result |-> NoResult]
        ELSE [coll |-> LokiUpdate(coll, updated.docs), phase |-> "resolved",
              result |-> <<"matched", Len(updated.docs)>>]

\* the callback of delete counting after results.remove()
DeleteCallbackCountsAfter(coll, query) ==
    LET results == Filtered(coll.data, query)
        removed == LokiRemove(coll, results)
        count == Len(DocsAt(removed.data, Filtered(removed.data, query)))
    IN  [coll |-> removed, phase |-> "resolved", result |-> <<"deleted", count>>]

\* the callback of delete counting with results.filteredrows[0] || 0
DeleteCallbackFirstRow(coll, query) ==
    LET results == Filtered(coll.data, query)
        count == IF results = {} THEN 0
                 ELSE (CHOOSE k \in results : \A m \in results : k <= m) - 1
    IN  [coll |-> LokiRemove(coll, results), phase |-> "resolved",
         result |-> <<"deleted", count>>]

\* the callback of delete
DeleteCallback(coll, query) ==
    LET results == Filtered(coll.data, query)
        count == Len(DocsAt(coll.data, results))
    IN  IF FindThrows(coll.data, 1..Len(coll.data), query)
        THEN [coll |-> coll, phase |-> "orphaned", result |-> NoResult]
        ELSE [coll |-> LokiRemove(coll, results), phase |-> "resolved",
              result |-> <<"deleted", count>>]

Finish(i, outcome) ==
    /\ calls' = [calls EXCEPT ![i].phase = outcome.phase, ![i].result = outcome.result]
    /\ collections' = [collections EXCEPT ![calls[i].collection] = outcome.coll]
    /\ UNCHANGED <<directoryCreation, fileExists, database, name, readyState,
                   opened, emitted, returned, issued, uuids,
                   instance, built, handed, closes>>

InsertRun(i) ==
    /\ Runs(i, "insert")
    /\ Finish(i, InsertCallback(collections[calls[i].collection], calls[i].arg))

UpdateRun(i) ==
    /\ Runs(i, "update")
    /\ Finish(i, UpdateCallback(collections[calls[i].collection],
                                calls[i].arg.query, calls[i].arg.update))

DeleteRun(i) ==
    /\ Runs(i, "delete")
    /\ Finish(i, DeleteCallback(collections[calls[i].collection], calls[i].arg.query))

----------------------------------------------------------------------------
(* dropDatabase, index and getIndexes *)

\* dropDatabase(collectionName): a callback is chained on this.database; no
\* collection is looked up or created
dropDatabase(slot, collectionName) ==
    /\ database.id # 0
    /\ calls' = Put(slot, [op |-> "dropDatabase", collection |-> collectionName,
                           given |-> collectionName, arg |-> collectionName,
                           phase |-> "waitDrop", result |-> NoResult])
    /\ issued' = issued + 1
    /\ UNCHANGED <<directoryCreation, fileExists, database, name, readyState,
                   opened, emitted, returned, collections, uuids,
                   instance, built, handed, closes>>

\* the callback of dropDatabase: database.collections.forEach(collection =>
\* collection.clear()), and a timer of 500 ms started on the last one
DropRun(i) ==
    /\ i \in 1..Len(calls)
    /\ calls[i].phase = "waitDrop"
    /\ database.state \in {"resolved", "rejected"}
    /\ IF database.state = "rejected"
       THEN \* the rejection of this.database passes to the promise returned
            /\ calls' = [calls EXCEPT ![i].phase = "rejected",
                                      ![i].result = Failure(database.error)]
            /\ UNCHANGED collections
       ELSE /\ collections' = [c \in DOMAIN collections |-> LokiClear(collections[c])]
            /\ calls' = [calls EXCEPT
                    ![i].phase = IF DOMAIN collections = {} THEN "resolved" ELSE "timer",
                    ![i].result = IF DOMAIN collections = {} THEN <<"dropped">>
                                  ELSE NoResult]
    /\ UNCHANGED <<directoryCreation, fileExists, database, name, readyState,
                   opened, emitted, returned, issued, uuids,
                   instance, built, handed, closes>>

\* the timer of dropDatabase fires
DropTimeout(i) ==
    /\ i \in 1..Len(calls)
    /\ calls[i].phase = "timer"
    /\ calls' = [calls EXCEPT ![i].phase = "resolved", ![i].result = <<"dropped">>]
    /\ UNCHANGED <<directoryCreation, fileExists, database, name, readyState,
                   opened, emitted, returned, collections, issued, uuids,
                   instance, built, handed, closes>>

\* close(): a callback is chained on this.database.  The call keeps the
\* state it found this.database in and the number of connect calls made
close(slot) ==
    /\ database.id # 0
    /\ calls' = Put(slot, [op |-> "close", collection |-> "",
                           given |-> [found |-> database.state,
                                      connects |-> Len(returned)],
                           arg |-> <<>>, phase |-> "waitClose", result |-> NoResult])
    /\ issued' = issued + 1
    /\ UNCHANGED <<directoryCreation, fileExists, database, name, readyState,
                   opened, emitted, returned, collections, uuids,
                   instance, built, handed, closes>>

\* the callback of close setting the facade back to disconnected
CloseRunDisconnecting(i) ==
    /\ i \in 1..Len(calls)
    /\ calls[i].phase = "waitClose"
    /\ database.state = "resolved"
    /\ closes' = closes + 1
    /\ readyState' = STATE_DISCONNECTED
    /\ calls' = [calls EXCEPT ![i].phase = "closing"]
    /\ UNCHANGED <<directoryCreation, fileExists, database, name,
                   opened, emitted, returned, collections, issued, uuids,
                   instance, built, handed>>

\* the callback of close: database.close(resolve); a rejection of
\* this.database passes to the promise close returned
CloseRun(i) ==
    /\ i \in 1..Len(calls)
    /\ calls[i].phase = "waitClose"
    /\ database.state \in {"resolved", "rejected"}
    /\ IF database.state = "rejected"
       THEN /\ calls' = [calls EXCEPT ![i].phase = "rejected",
                                      ![i].result = Failure(database.error)]
            /\ UNCHANGED closes
       ELSE /\ closes' = closes + 1
            /\ calls' = [calls EXCEPT ![i].phase = "closing"]
    /\ UNCHANGED <<directoryCreation, fileExists, database, name, readyState,
                   opened, emitted, returned, collections, issued, uuids,
                   instance, built, handed>>

\* the engine calls the callback close gave it
CloseCallback(i) ==
    /\ i \in 1..Len(calls)
    /\ calls[i].phase = "closing"
    /\ calls' = [calls EXCEPT ![i].phase = "resolved", ![i].result = <<"closed">>]
    /\ UNCHANGED <<directoryCreation, fileExists, database, name, readyState,
                   opened, emitted, returned, collections, issued, uuids,
                   instance, built, handed, closes>>

\* index(collection, indexes) and getIndexes(collectionName): both start
\* with getCollection
index(slot, collection, indexes) ==
    /\ calls' = Put(slot, NewCall("index", collection, indexes, indexes))
    /\ issued' = issued + 1
    /\ UNCHANGED <<directoryCreation, fileExists, database, name, readyState,
                   opened, emitted, returned, collections, uuids,
                   instance, built, handed, closes>>

getIndexes(slot, collection) ==
    /\ calls' = Put(slot, NewCall("getIndexes", collection, <<>>, <<>>))
    /\ issued' = issued + 1
    /\ UNCHANGED <<directoryCreation, fileExists, database, name, readyState,
                   opened, emitted, returned, collections, uuids,
                   instance, built, handed, closes>>

\* the forEach of index from position idx on: a request for _id alone is
\* passed over, any other request indexes Object.keys(index.keys)[0]; resolve
\* is called in the branch of the last position only.  An exception of the
\* engine ends the callback with the promise left pending.
RECURSIVE IndexFrom(_, _, _, _, _)
IndexFrom(collectionName, coll, indexes, idx, results) ==
    IF idx > Len(indexes)
    THEN [coll |-> coll, phase |-> "orphaned", result |-> NoResult]
    ELSE LET field == indexes[idx].keys[1]
             ignored == Len(indexes[idx].keys) = 1 /\ field = "_id"
             ensured == IF indexes[idx].unique THEN ensureUniqueIndex(coll, field)
                        ELSE [coll |-> ensureIndex(coll, field), error |-> FALSE]
             pushed == Append(results, [collection |-> collectionName, index |-> field])
         IN  IF ignored
             THEN IndexFrom(collectionName, coll, indexes, idx + 1, results)
             ELSE IF ensured.error
             THEN [coll |-> ensured.coll, phase |-> "orphaned", result |-> NoResult]
             ELSE IF idx = Len(indexes)
             THEN [coll |-> ensured.coll, phase |-> "resolved",
                   result |-> <<"indexes", pushed>>]
             ELSE IndexFrom(collectionName, ensured.coll, indexes, idx + 1, pushed)

IndexCallback(collectionName, coll, indexes) ==
    IndexFrom(collectionName, coll, indexes, 1, <<>>)

IndexRun(i) ==
    /\ Runs(i, "index")
    /\ Finish(i, IndexCallback(calls[i].collection, collections[calls[i].collection],
                               calls[i].arg))

\* the callback of getIndexes: the keys of collection.binaryIndices, then the
\* keys of collection.constraints.unique with unique: true
GetIndexesCallback(coll) ==
    [coll |-> coll, phase |-> "resolved",
     result |-> <<"names",
                  [k \in 1..Len(coll.binaryIndices) |->
                      [name |-> coll.binaryIndices[k], unique |-> FALSE]] \o
                  [k \in 1..Len(coll.unique) |->
                      [name |-> coll.unique[k], unique |-> TRUE]]>>]

GetIndexesRun(i) ==
    /\ Runs(i, "getIndexes")
    /\ Finish(i, GetIndexesCallback(collections[calls[i].collection]))

----------------------------------------------------------------------------
(* Specifications *)

\* Spec: one facade from its construction on, callers that do not wait
Overlapping == Len(calls) < MaxCalls
NextSlot == Len(calls) + 1

Steps ==
    \E i \in 1..MaxCalls :
        \/ getCollection(i)
        \/ DatabaseRejected(i)
        \/ FindRun(i)
        \/ InsertRun(i)
        \/ UpdateRun(i)
        \/ DeleteRun(i)

Next ==
    \/ \E err \in BOOLEAN : MkdirpCallback(err)
    \/ \E databaseName \in DatabaseNames : connect(databaseName)
    \/ DirectoryCreated
    \/ StatCallback
    \/ \E err \in BOOLEAN : WriteFileCallback(err)
    \/ Loaded
    \/ \E c \in CollectionNames, data \in OverlapInserts :
            Overlapping /\ insert(NextSlot, c, data)
    \/ \E c \in CollectionNames, q \in OverlapQueries, o \in OverlapOptions :
            Overlapping /\ find(NextSlot, c, q, o)
    \/ \E c \in CollectionNames, q \in OverlapQueries, u \in OverlapUpdates :
            Overlapping /\ update(NextSlot, c, q, u)
    \/ \E c \in CollectionNames, q \in OverlapQueries :
            Overlapping /\ delete(NextSlot, c, q)
    \/ Steps

Spec == Init /\ [][Next]_vars

\* SpecSerial: a connected facade and a caller that awaits each call before
\* it issues the next
InitConnected ==
    /\ directoryCreation = "resolved"
    /\ fileExists = TRUE
    /\ database = [id |-> 1, state |-> "resolved", arg |-> "content", error |-> ""]
    /\ name = "content"
    /\ readyState = STATE_CONNECTED
    /\ opened = 1
    /\ emitted = 1
    /\ returned = << [database |-> "content", found |-> "none", promise |-> 1] >>
    /\ collections = EmptyObject
    /\ calls = << >>
    /\ issued = 0
    /\ uuids = 0
    /\ closes = 0
    /\ instance = NoInstance
    /\ built = EmptyObject
    /\ handed = << >>

Awaited ==
    /\ issued < MaxOps
    /\ \A i \in 1..Len(calls) : calls[i].phase \in Ended

NextSerial ==
    \/ \E c \in CollectionNames, data \in InsertInputs : Awaited /\ insert(1, c, data)
    \/ \E c \in CollectionNames, q \in Queries, o \in FindOptions :
            Awaited /\ find(1, c, q, o)
    \/ \E c \in CollectionNames, q \in Queries, u \in Updates :
            Awaited /\ update(1, c, q, u)
    \/ \E c \in CollectionNames, q \in Queries : Awaited /\ delete(1, c, q)
    \/ getCollection(1)
    \/ FindRun(1)
    \/ InsertRun(1)
    \/ UpdateRun(1)
    \/ DeleteRun(1)

SpecSerial == InitConnected /\ [][NextSerial]_vars

\* SpecQuery: a connected facade and a caller that stores documents and then
\* reads them back, awaiting each call
Reading ==
    /\ issued > 0
    /\ issued < MaxQueries
    /\ \A i \in 1..Len(calls) : calls[i].phase \in Ended

NextQuery ==
    \/ \E c \in CollectionNames, data \in StoredInputs : issued = 0 /\ insert(1, c, data)
    \/ \E c \in CollectionNames, q \in Filters, o \in QueryOptions :
            Reading /\ find(1, c, q, o)
    \/ getCollection(1)
    \/ InsertRun(1)
    \/ FindRun(1)

SpecQuery == InitConnected /\ [][NextQuery]_vars

\* SpecAdmin: a connected facade with two collection names and a caller that
\* stores, reads, indexes and drops, awaiting each call
AdminCollections == {"users", "posts"}
AdminInserts == {<<Ernie, Oscar>>, <<BigBird>>}
AdminQueries == {<<>>, << <<"colour", Str("yellow")>> >>}

\* one index specification: the keys of index.keys and options.unique
IndexOn(keys, unique) == [keys |-> keys, unique |-> unique]

IndexLists ==
    {<<>>,
     << IndexOn(<<"colour">>, FALSE) >>,
     << IndexOn(<<"_id">>, FALSE) >>,
     << IndexOn(<<"colour">>, FALSE), IndexOn(<<"_id">>, FALSE) >>,
     << IndexOn(<<"_id">>, FALSE), IndexOn(<<"age">>, FALSE) >>,
     << IndexOn(<<"age">>, TRUE), IndexOn(<<"colour">>, FALSE) >>,
     << IndexOn(<<"colour">>, TRUE) >>,
     << IndexOn(<<"age", "colour">>, FALSE) >>}

\* the name dropDatabase is given; "" when it is called without one
DropNames == AdminCollections \cup {""}

Administering ==
    /\ issued < MaxAdmin
    /\ \A i \in 1..Len(calls) : calls[i].phase \in Ended

NextAdmin ==
    \/ \E c \in AdminCollections, data \in AdminInserts : Administering /\ insert(1, c, data)
    \/ \E c \in AdminCollections, q \in AdminQueries :
            Administering /\ find(1, c, q, NoOptions)
    \/ \E c \in DropNames : Administering /\ dropDatabase(1, c)
    \/ \E c \in AdminCollections, indexes \in IndexLists :
            Administering /\ index(1, c, indexes)
    \/ \E c \in AdminCollections : Administering /\ getIndexes(1, c)
    \/ getCollection(1)
    \/ InsertRun(1)
    \/ FindRun(1)
    \/ DropRun(1)
    \/ DropTimeout(1)
    \/ IndexRun(1)
    \/ GetIndexesRun(1)

SpecAdmin == InitConnected /\ [][NextAdmin]_vars

\* SpecShared: two adapters obtained from the module, each connected with
\* its own database name; the calls made through adapter h take slot h, and
\* the caller of an adapter awaits each of its calls
AdapterDatabase == <<"content", "secondary">>
SharedInserts == {<<Ernie>>, <<Oscar, BigBird>>}
SharedQueries == {<<>>, << <<"colour", Str("yellow")>> >>}

BothConnected == Len(returned) = 2 /\ database.state = "resolved"

CallsThrough(h) ==
    /\ Adapters[h] = TheFacade
    /\ BothConnected
    /\ issued < MaxShared
    /\ h <= Len(calls) + 1
    /\ h <= Len(calls) => calls[h].phase \in Ended

NextShared ==
    \/ MkdirpCallback(FALSE)
    \/ \E h \in 1..2 : /\ Adapters[h] = TheFacade
                         /\ Len(returned) = h - 1
                         /\ connect(AdapterDatabase[h])
    \/ DirectoryCreated
    \/ StatCallback
    \/ WriteFileCallback(FALSE)
    \/ Loaded
    \/ \E h \in 1..2, c \in AdminCollections, data \in SharedInserts :
            CallsThrough(h) /\ insert(h, c, data)
    \/ \E h \in 1..2, c \in AdminCollections, q \in SharedQueries :
            CallsThrough(h) /\ find(h, c, q, NoOptions)
    \/ \E i \in 1..2 : getCollection(i)
    \/ \E i \in 1..2 : InsertRun(i)
    \/ \E i \in 1..2 : FindRun(i)

SpecShared == Init /\ [][NextShared]_vars

\* SpecAdminFair: the same, with the promise callbacks of a call run once
\* they are queued
SpecAdminFair ==
    /\ SpecAdmin
    /\ WF_vars(getCollection(1))
    /\ WF_vars(IndexRun(1))
    /\ WF_vars(GetIndexesRun(1))

\* SpecOverlap: a connected facade and a caller that stores documents, waits
\* for the insert, and then issues calls without waiting for one before the
\* next.  The callbacks run as the promise jobs are queued.
OverlapIncrements ==
    {<< <<"$inc", Obj(<< <<"age", Num(1)>> >>)>> >>,
     << <<"$inc", Obj(<< <<"age", Num(2)>> >>)>> >>}

NextOverlap ==
    \/ \E c \in CollectionNames, data \in {<<Oscar>>, <<Ernie, Oscar>>} :
            issued = 0 /\ insert(1, c, data)
    \/ \E c \in CollectionNames, q \in {<<>>} \cup OverlapQueries, u \in OverlapIncrements :
            /\ issued > 0 /\ calls[1].phase \in Ended /\ Len(calls) < MaxOverlap
            /\ update(NextSlot, c, q, u)
    \/ \E c \in CollectionNames, q \in {<<>>} \cup OverlapQueries :
            /\ issued > 0 /\ calls[1].phase \in Ended /\ Len(calls) < MaxOverlap
            /\ delete(NextSlot, c, q)
    \/ \E c \in CollectionNames, q \in {<<>>} \cup OverlapQueries :
            /\ issued > 0 /\ calls[1].phase \in Ended /\ Len(calls) < MaxOverlap
            /\ find(NextSlot, c, q, NoOptions)
    \/ \E i \in 1..MaxOverlap :
            \/ getCollection(i)
            \/ InsertRun(i)
            \/ UpdateRun(i)
            \/ DeleteRun(i)
            \/ FindRun(i)

SpecOverlap == InitConnected /\ [][NextOverlap]_vars

\* SpecEarly: one facade from its construction on; the caller issues
\* operations once connect was called and before the connection is made or
\* has failed, and close at any time after connect was called
NextEarly ==
    \/ \E err \in BOOLEAN : MkdirpCallback(err)
    \/ connect("content")
    \/ DirectoryCreated
    \/ StatCallback
    \/ \E err \in BOOLEAN : WriteFileCallback(err)
    \/ Loaded
    \/ /\ Len(calls) < MaxEarly
       /\ database.state \in {"waitDir", "stat", "write", "loading"}
       /\ \/ insert(NextSlot, "users", <<Oscar>>)
          \/ find(NextSlot, "users", <<>>, NoOptions)
          \/ \E u \in OverlapUpdates : update(NextSlot, "users", <<>>, u)
          \/ delete(NextSlot, "users", <<>>)
          \/ \E indexes \in {<<>>, <<IndexOn(<<"colour">>, FALSE)>>} :
                index(NextSlot, "users", indexes)
          \/ getIndexes(NextSlot, "users")
          \/ dropDatabase(NextSlot, "")
    \/ Len(calls) < MaxEarly /\ close(NextSlot)
    \/ \E i \in 1..MaxEarly :
            \/ getCollection(i)
            \/ DatabaseRejected(i)
            \/ InsertRun(i)
            \/ FindRun(i)
            \/ UpdateRun(i)
            \/ DeleteRun(i)
            \/ IndexRun(i)
            \/ GetIndexesRun(i)
            \/ DropRun(i)
            \/ DropTimeout(i)
            \/ CloseRun(i)
            \/ CloseCallback(i)

SpecEarly == Init /\ [][NextEarly]_vars

\* the promise jobs run, the timer fires and the engine calls back: a
\* callback that is due is run
SpecEarlyFair ==
    /\ SpecEarly
    /\ WF_vars(\E i \in 1..MaxEarly :
                  \/ getCollection(i) \/ InsertRun(i) \/ FindRun(i)
                  \/ UpdateRun(i) \/ DeleteRun(i) \/ IndexRun(i)
                  \/ GetIndexesRun(i) \/ DropRun(i) \/ DropTimeout(i)
                  \/ CloseRun(i) \/ CloseCallback(i))

\* SpecModule: the module from the time it is loaded: callers obtain
\* adapters with and without options, connect them, and reset the module
NextModule ==
    \/ \E options \in {"undefined", "options"} : FileStoreAdapter(options)
    \/ reset
    \/ \E f \in DOMAIN built : ConnectOn(f) \/ LoadedOn(f)

SpecModule == Init /\ [][NextModule]_vars

----------------------------------------------------------------------------
(* What a filter asks for, stated on the filter as the caller wrote it: a  *)
(* literal asks for a field equal to it, an operator sub-mapping asks for  *)
(* a field that passes every one of its comparisons.                       *)

Compares(operator, value, operand) ==
    /\ TypeTag(value) = "number"
    /\ CASE operator = "$gt" -> value[2] > operand[2]
         [] operator = "$gte" -> value[2] >= operand[2]
         [] operator = "$lt" -> value[2] < operand[2]
         [] operator = "$lte" -> value[2] <= operand[2]

Satisfies(doc, filter) ==
    \A i \in 1..Len(filter) :
        LET field == filter[i][1]
            asked == filter[i][2]
        IN  IF TypeTag(asked) = "object"
            THEN \A k \in 1..Len(asked[2]) :
                    /\ field \in DOMAIN doc
                    /\ Compares(asked[2][k][1], doc[field], asked[2][k][2])
            ELSE field \in DOMAIN doc /\ doc[field] = asked

CallIds == 1..Len(calls)

----------------------------------------------------------------------------
(* Claims *)

\* C1: for one facade, after any sequence of connect calls (overlapping or
\* not, with the same or different database names) the engine has been
\* opened at most once, every connect call has returned the same promise of
\* the database, and a call made once the database is open opens nothing.
C1_ConnectOnce ==
    /\ opened <= 1
    /\ \A i, j \in 1..Len(returned) : returned[i].promise = returned[j].promise
    /\ \A i \in 1..Len(returned) : returned[i].promise = database.id
    /\ (\E i \in 1..Len(returned) : returned[i].found = "resolved") => opened = 1

\* two connect calls with different database names, the second one made with
\* the database already open
C1_Witness ==
    /\ Len(returned) >= 2
    /\ returned[1].database # returned[2].database
    /\ returned[2].found = "resolved"
    /\ opened = 1

\* C2: every call resolves or is rejected with the underlying error and
\* never stays pending: no call's promise is left without any code that
\* could still settle it, and a rejected call carries the error.
C2_EveryCallSettles ==
    \A i \in CallIds :
        /\ calls[i].phase # "orphaned"
        /\ calls[i].phase = "rejected" => TypeTag(calls[i].result) = "error"

\* the step in which the callback of call i runs and ends the call
Ends(i, op) ==
    /\ calls[i].op = op
    /\ calls[i].phase = "waitColl"
    /\ i \in 1..Len(calls')
    /\ calls'[i].phase \in Ended

\* what a find issued on the collection would resolve its results with
Found(coll, filter, options) == FindCallback(coll, prepareQuery(filter), options)[2]

\* the positions of the documents of a collection that a filter asks for
Asked(coll, filter) == {k \in 1..Len(coll.data) : Satisfies(coll.data[k], filter)}

\* the sequence numbers of a list of documents
Lokis(docs) == {docs[k]["$loki"] : k \in 1..Len(docs)}

\* C3: a caller that awaits each call reads its own writes.  When an insert
\* resolves, a find whose filter the inserted document satisfies returns it
\* (the filter matching no more documents than find's default limit); when
\* an update resolves, a find returns the matched documents with the update
\* applied; when a delete resolves, no find returns a deleted document.
C3_ReadYourWrites ==
    [][\A i \in CallIds :
        LET before == collections[calls[i].collection]
            after == collections'[calls[i].collection]
            given == calls[i].given
        IN  /\ (Ends(i, "insert") /\ calls'[i].phase = "resolved") =>
                  \A q \in Queries : \A d \in Range(calls'[i].result[2]) :
                      (Satisfies(d, q) /\ Cardinality(Asked(after, q)) <= DefaultLimit)
                          => d \in Range(Found(after, q, NoOptions))
            /\ (Ends(i, "update") /\ calls'[i].phase = "resolved") =>
                  \A k \in Asked(before, given.query) :
                      ApplyUpdate(given.update, before.data[k])
                          \in Range(Found(after, <<>>, NoOptions))
            /\ (Ends(i, "delete") /\ calls'[i].phase = "resolved") =>
                  \A q \in Queries, o \in FindOptions :
                      \A k \in Asked(before, given.query) :
                          before.data[k]["$loki"] \notin Lokis(Found(after, q, o))
      ]_vars

\* an awaited update has resolved with one document matched and changed,
\* another left alone
C3_Witness ==
    /\ Len(calls) = 1
    /\ calls[1].op = "update"
    /\ calls[1].phase = "resolved"
    /\ calls[1].result = <<"matched", 1>>
    /\ calls[1].given.update[1][1] = "$set"
    /\ Len(Found(collections["users"], << <<"colour", Str("yellow")>> >>, NoOptions)) = 2

\* the _id values of the stored documents and of the documents of the
\* inserts not yet run, other than document k of call i
OtherIds(i, k) ==
    UNION {{calls[j].arg[m]["_id"] :
                m \in {y \in 1..Len(calls[j].arg) : <<j, y>> # <<i, k>>}} :
           j \in {x \in CallIds : calls[x].op = "insert"
                                   /\ calls[x].phase \in {"waitDb", "waitColl"}}}
    \cup UNION {{collections[c].data[m]["_id"] : m \in 1..Len(collections[c].data)} :
                c \in DOMAIN collections}

\* C4: insert gives every document that arrives without an _id a new,
\* non-empty _id that no other document has, and leaves every _id the caller
\* supplied exactly as given, whatever its value.
C4_InsertIds ==
    \A i \in CallIds :
        (calls[i].op = "insert" /\ calls[i].phase \in {"waitDb", "waitColl"}) =>
            \A k \in 1..Len(calls[i].given) :
                IF "_id" \in DOMAIN calls[i].given[k]
                THEN calls[i].arg[k]["_id"] = calls[i].given[k]["_id"]
                ELSE /\ Truthy(calls[i].arg[k]["_id"])
                     /\ calls[i].arg[k]["_id"] \notin OtherIds(i, k)

\* every collection other than the one call i names is left as it was
OthersUnchanged(i) ==
    /\ DOMAIN collections' = DOMAIN collections
    /\ \A c \in DOMAIN collections \ {calls[i].collection} :
          collections'[c] = collections[c]

C6_Operators ==
    [][\A i \in CallIds :
        (Ends(i, "update") /\ calls'[i].phase = "resolved") =>
            LET before == collections[calls[i].collection].data
                after == collections'[calls[i].collection].data
                upd == calls[i].given.update
            IN  \A k \in Asked(collections[calls[i].collection], calls[i].given.query) :
                \A o \in 1..Len(upd) : \A f \in 1..Len(upd[o][2][2]) :
                    LET operator == upd[o][1]
                        field == upd[o][2][2][f][1]
                        operand == upd[o][2][2][f][2]
                        old == before[k]
                        new == Get(after[k], field)
                    IN  /\ operator = "$set" => new = operand
                        /\ operator = "$inc" =>
                              new = IF field \in DOMAIN old
                                    THEN Num(old[field][2] + operand[2])
                                    ELSE operand
                        /\ operator = "$push" =>
                              new = IF field \in DOMAIN old
                                    THEN Arr(old[field][2] \o <<operand>>)
                                    ELSE Arr(<<operand>>)
      ]_vars

\* $inc and $push have each created a field that was absent, and $push has
\* appended to an array
C6_Witness ==
    /\ Len(calls) = 1
    /\ calls[1].op = "update"
    /\ calls[1].phase = "resolved"
    /\ calls[1].given.update[1][1] = "$push"
    /\ "users" \in DOMAIN collections
    /\ \E k \in 1..Len(collections["users"].data) :
          Get(collections["users"].data[k], "colours") = Arr(<<Str("red")>>)
    /\ \E k \in 1..Len(collections["users"].data) :
          Get(collections["users"].data[k], "colours") = Arr(<<Str("green"), Str("red")>>)

\* C7: an update whose expression holds an operator outside the supported set
\* is never silently ignored: once its callback has run, the call is
\* rejected with an UnsupportedOperator error.
C7_UnsupportedOperatorFails ==
    \A i \in CallIds :
        (/\ calls[i].op = "update"
         /\ \E o \in 1..Len(calls[i].given.update) :
                calls[i].given.update[o][1] \notin SupportedOperators
         /\ calls[i].phase \notin {"waitDb", "waitColl"})
            => /\ calls[i].phase = "rejected"
               /\ calls[i].result = Failure("UnsupportedOperator")

\* C8: delete removes exactly the documents the filter asks for and resolves
\* with deletedCount equal to their number; the other documents stay as they
\* were, in their order, and a filter that asks for none resolves with 0 and
\* changes nothing.
C8_DeleteExact ==
    [][\A i \in CallIds :
        Ends(i, "delete") =>
            LET before == collections[calls[i].collection]
                after == collections'[calls[i].collection]
                asked == Asked(before, calls[i].given.query)
            IN  /\ after.data = SelectIdx(before.data, (1..Len(before.data)) \ asked, 1)
                /\ calls'[i].phase = "resolved"
                /\ calls'[i].result = <<"deleted", Cardinality(asked)>>
                /\ asked = {} => after = before
                /\ OthersUnchanged(i)
      ]_vars

\* a delete has resolved that removed two of three documents
C8_Witness ==
    /\ Len(calls) = 1
    /\ calls[1].op = "delete"
    /\ calls[1].phase = "resolved"
    /\ calls[1].result = <<"deleted", 2>>
    /\ Len(collections["users"].data) = 1

\* the skip and the limit a caller asked for, with the documented defaults
AskedSkip(options) == IF "skip" \in DOMAIN options THEN options["skip"][2] ELSE DefaultSkip
AskedLimit(options) == IF "limit" \in DOMAIN options THEN options["limit"][2] ELSE DefaultLimit

\* C9: find returns the sorted matching documents with the first options.skip
\* (default 0) dropped and at most options.limit (default 100) kept: for
\* every state and options the result holds no more than limit documents and
\* is the slice [skip, skip + limit) of the sorted matches.
C9_Pagination ==
    \A i \in CallIds :
        (calls[i].op = "find" /\ calls[i].phase = "resolved"
            /\ "sort" \notin DOMAIN calls[i].given.options) =>
            LET coll == collections[calls[i].collection]
                sorted == SelectIdx(coll.data, Asked(coll, calls[i].given.query), 1)
                skip == AskedSkip(calls[i].given.options)
                lim == AskedLimit(calls[i].given.options)
            IN  /\ Len(calls[i].result[2]) <= lim
                /\ calls[i].result[2] = SubSeq(sorted, skip + 1, Min(skip + lim, Len(sorted)))

----------------------------------------------------------------------------
(* Claims on the filters, the sort and the projection of find *)

\* the find call of the caller that reads back, once it has resolved
Read == Len(calls) = 1 /\ calls[1].op = "find" /\ calls[1].phase = "resolved"

\* whether two values of a field stand in the order asked for
InOrder(a, b, descending) ==
    IF TypeTag(a) = "number" /\ TypeTag(b) = "number"
    THEN IF descending THEN a[2] >= b[2] ELSE a[2] <= b[2]
    ELSE IF TypeTag(a) = "string" /\ TypeTag(b) = "string"
    THEN IF descending THEN StringRank(a[2]) >= StringRank(b[2])
         ELSE StringRank(a[2]) <= StringRank(b[2])
    ELSE TRUE

\* C11: with a sort mapping in the options, find returns stored documents
\* ordered by the mapping's (first) key: any two results that both hold the
\* key stand in descending order when the key's value is -1 and in ascending
\* order for every other value, and without skip and limit every matching
\* document is returned.
C11_SortMapping ==
    (Read /\ "sort" \in DOMAIN calls[1].given.options) =>
        LET options == calls[1].given.options
            property == options["sort"][2][1][1]
            descending == options["sort"][2][1][2] = Num(-1)
            results == calls[1].result[2]
        IN  /\ \A k \in 1..Len(results) :
                  results[k] \in Range(collections[calls[1].collection].data)
            /\ \A k, l \in 1..Len(results) :
                  (k < l /\ property \in DOMAIN results[k]
                         /\ property \in DOMAIN results[l]) =>
                      InOrder(results[k][property], results[l][property], descending)
            /\ \A k, l \in 1..Len(results) :
                  k # l => results[k]["$loki"] # results[l]["$loki"]
            /\ "limit" \notin DOMAIN options => Len(results) = calls[1].result[3]

\* a find sorted by colour, descending, has returned the first, the third
\* and then the second of the stored documents
C11_Witness ==
    /\ Read
    /\ calls[1].given.options = [sort |-> Obj(Single("colour", Num(-1)))]
    /\ calls[1].given.query = <<>>
    /\ [k \in 1..Len(calls[1].result[2]) |-> calls[1].result[2][k]["$loki"]]
           = <<Num(1), Num(3), Num(2)>>

\* the find call of the caller that reads back, from the moment it is issued
Asking == Len(calls) = 1 /\ calls[1].op = "find"

\* a filter of fields only, without a boolean composition at the top level
Plain(filter) == \A i \in 1..Len(filter) : filter[i][1] \notin {"$and", "$or"}

\* the field/operator expressions a filter stands for, as the caller wrote
\* it: one per literal-valued field (null asks for a missing field, a regular
\* expression for a match), one per operator of each operator sub-mapping
\* (with $ne: null asking for $ne: undefined)
ExpressionOf(field, value) == Obj(<< <<field, value>> >>)

StandsFor(field, value) ==
    CASE TypeTag(value) = "regexp" ->
            << ExpressionOf(field, Obj(<< <<"$regex",
                                Arr(<<Str(value[2]), Str(value[3])>>)>> >>)) >>
      [] TypeTag(value) = "null" ->
            << ExpressionOf(field, Obj(<< <<"$exists", Bool(FALSE)>> >>)) >>
      [] TypeTag(value) = "object" ->
            [k \in 1..Len(value[2]) |->
                ExpressionOf(field, Obj(<< <<value[2][k][1],
                    IF value[2][k][1] = "$ne" /\ value[2][k][2] = Null
                    THEN Undefined ELSE value[2][k][2]>> >>))]
      [] OTHER -> << ExpressionOf(field, value) >>

AllStandFor(filter) ==
    Concat([i \in 1..Len(filter) |-> StandsFor(filter[i][1], filter[i][2])])

\* C12: for every filter of fields that stands for more than one
\* field/operator expression, prepareQuery returns {$and: [...]} whose list
\* holds exactly these expressions, one per field/operator pair, in the order
\* of the fields and of the operators within each field.
C12_Conjunction ==
    (Asking /\ Plain(calls[1].given.query)
            /\ Len(AllStandFor(calls[1].given.query)) > 1) =>
        calls[1].arg.query = << <<"$and", Arr(AllStandFor(calls[1].given.query))>> >>

\* C13: for every filter of fields that stands for exactly one field/operator
\* expression, prepareQuery returns that expression unwrapped, and for every
\* filter (the empty one too) the result has at most one top-level field, or
\* is the $and conjunction alone.
C13_SingleUnwrapped ==
    Asking =>
        LET filter == calls[1].given.query
            prepared == calls[1].arg.query
        IN  /\ (Plain(filter) /\ Len(AllStandFor(filter)) = 1) =>
                    prepared = AllStandFor(filter)[1][2]
            /\ Len(prepared) <= 1

\* whether a prepared query holds an expression: as the query itself, or as
\* one of the expressions of its $and list
Holds(prepared, expression) ==
    \/ prepared = expression[2]
    \/ /\ Len(prepared) = 1
       /\ prepared[1][1] = "$and"
       /\ TypeTag(prepared[1][2]) = "array"
       /\ \E k \in 1..Len(prepared[1][2][2]) : prepared[1][2][2][k] = expression

\* C14: for every field whose filter value is a regular-expression literal,
\* the prepared query holds the field with {$regex: [source, flags]}, the
\* literal's source and its flags unchanged.
C14_RegexRewritten ==
    (Asking /\ Plain(calls[1].given.query)) =>
        \A i \in 1..Len(calls[1].given.query) :
            LET field == calls[1].given.query[i][1]
                value == calls[1].given.query[i][2]
            IN  TypeTag(value) = "regexp" =>
                    Holds(calls[1].arg.query,
                          ExpressionOf(field, Sub("$regex",
                              Arr(<<Str(value[2]), Str(value[3])>>))))

\* a find with /^G/i on colour has returned the green document
C14_Witness ==
    /\ Read
    /\ calls[1].given.query = Single("colour", RegExp("^G", "i"))
    /\ calls[1].arg.query = Single("colour", Sub("$regex", Arr(<<Str("^G"), Str("i")>>)))
    /\ Len(calls[1].result[2]) = 1
    /\ calls[1].result[2][1]["colour"] = Str("green")

\* C15: for every field whose operator sub-mapping holds $ne with operand
\* null, the prepared query holds the field with $ne: undefined and, for every
\* other operator of the sub-mapping, the field with that operator and its
\* operand.
C15_NeNullOnly ==
    (Asking /\ Plain(calls[1].given.query)) =>
        \A i \in 1..Len(calls[1].given.query) :
            LET field == calls[1].given.query[i][1]
                value == calls[1].given.query[i][2]
            IN  (/\ TypeTag(value) = "object"
                 /\ \E k \in 1..Len(value[2]) :
                        value[2][k][1] = "$ne" /\ value[2][k][2] = Null) =>
                    \A k \in 1..Len(value[2]) :
                        Holds(calls[1].arg.query, StandsFor(field, value)[k])

\* C16: for every field whose filter value is literally null the prepared
\* query holds the field with {$exists: false}; the filter {field: null} is
\* prepared as {field: {$exists: false}} and the filter {field: {$ne: null}}
\* as {field: {$ne: undefined}}, which is another query.
C16_NullMeansMissing ==
    (Asking /\ Plain(calls[1].given.query)) =>
        LET filter == calls[1].given.query
            prepared == calls[1].arg.query
        IN  /\ \A i \in 1..Len(filter) :
                  filter[i][2] = Null =>
                      Holds(prepared, ExpressionOf(filter[i][1],
                                                   Sub("$exists", Bool(FALSE))))
            /\ (Len(filter) = 1 /\ filter[1][2] = Null) =>
                  /\ prepared = Single(filter[1][1], Sub("$exists", Bool(FALSE)))
                  /\ prepared # Single(filter[1][1], Sub("$ne", Undefined))
            /\ (Len(filter) = 1 /\ filter[1][2] = Sub("$ne", Null)) =>
                  prepared = Single(filter[1][1], Sub("$ne", Undefined))

\* a find with age: null has returned the one document without an age
C16_Witness ==
    /\ Read
    /\ calls[1].given.query = Single("age", Null)
    /\ calls[1].arg.query = Single("age", Sub("$exists", Bool(FALSE)))
    /\ Len(calls[1].result[2]) = 1
    /\ "age" \notin DOMAIN calls[1].result[2][1]

\* a filter that is $and or $or over a list of two or more sub-expressions
Composed(filter) ==
    /\ Len(filter) = 1
    /\ filter[1][1] \in {"$and", "$or"}
    /\ TypeTag(filter[1][2]) = "array"
    /\ Len(filter[1][2][2]) >= 2

\* C17: a find whose filter is $and (or $or) over two or more sub-expressions
\* returns exactly the stored documents that satisfy all (at least one) of
\* the sub-expressions.
C17_NestedComposition ==
    (Read /\ Composed(calls[1].given.query)
          /\ DOMAIN calls[1].given.options = {}) =>
        LET data == collections[calls[1].collection].data
            subs == calls[1].given.query[1][2][2]
            meant == {k \in 1..Len(data) :
                         IF calls[1].given.query[1][1] = "$and"
                         THEN \A n \in 1..Len(subs) : Satisfies(data[k], subs[n][2])
                         ELSE \E n \in 1..Len(subs) : Satisfies(data[k], subs[n][2])}
        IN  calls[1].result[2] = SelectIdx(data, meant, 1)

\* a find with a projection that has resolved, and the documents the same
\* find returns without the projection
Projected == Read /\ DOMAIN calls[1].given.options = {"fields"}
Unprojected ==
    Found(collections[calls[1].collection], calls[1].given.query, NoOptions)

\* the paths a projection names, and those it marks with a given marker
PathsOf(fields) ==
    IF TypeTag(fields) = "array" THEN Range(fields[2])
    ELSE {fields[2][i][1] : i \in 1..Len(fields[2])}
MarkedWith(fields, marker) ==
    IF TypeTag(fields) = "array" THEN (IF marker = 1 THEN Range(fields[2]) ELSE {})
    ELSE {fields[2][i][1] : i \in {n \in 1..Len(fields[2]) : fields[2][n][2] = Num(marker)}}

\* C18: the identifier is never dropped by a projection: for every
\* projection (an array of names, an inclusion mapping, an exclusion mapping,
\* one that marks _id with 0) every document find returns holds the _id of
\* the stored document it was made from.
C18_IdentifierKept ==
    Projected =>
        /\ Len(calls[1].result[2]) = Len(Unprojected)
        /\ \A k \in 1..Len(Unprojected) :
              /\ "_id" \in DOMAIN calls[1].result[2][k]
              /\ calls[1].result[2][k]["_id"] = Unprojected[k]["_id"]

\* a find whose projection marks _id and colour with 0 has returned three
\* documents, each with its _id and without its colour
C18_Witness ==
    /\ Projected
    /\ calls[1].given.options["fields"] = Obj(<< Path(<<"_id">>, 0), Path(<<"colour">>, 0) >>)
    /\ Len(calls[1].result[2]) = 3
    /\ \A k \in 1..3 : /\ "_id" \in DOMAIN calls[1].result[2][k]
                        /\ "colour" \notin DOMAIN calls[1].result[2][k]

\* inclusion mode: an array of names or a mapping whose markers are all 1
Inclusion(fields) ==
    PathsOf(fields) # {} /\ MarkedWith(fields, 1) = PathsOf(fields)

\* the paths below a key
Below(paths, key) == {Tail(p) : p \in {q \in paths : q[1] = key /\ Len(q) > 1}}

\* what inclusion asks for: of an object, the keys the paths list; a key
\* listed by itself whole, the parent of a dotted path with the nested keys
\* the paths name
RECURSIVE IncludedPairs(_, _)
IncludedPairs(paths, pairs) ==
    IF pairs = <<>> THEN <<>>
    ELSE LET key == Head(pairs)[1]
             value == Head(pairs)[2]
             rest == IncludedPairs(paths, Tail(pairs))
         IN  IF <<key>> \in paths THEN <<Head(pairs)>> \o rest
             ELSE IF Below(paths, key) # {} /\ TypeTag(value) = "object"
             THEN << <<key, Obj(IncludedPairs(Below(paths, key), value[2]))>> >> \o rest
             ELSE rest

IncludedDoc(paths, doc) ==
    [field \in {f \in DOMAIN doc : f = "_id" \/ \E p \in paths : p[1] = f} |->
        IF field = "_id" \/ <<field>> \in paths THEN doc[field]
        ELSE Obj(IncludedPairs(Below(paths, field), doc[field][2]))]

\* the dotted paths of a projection lead into nested documents
IntoObjects(paths, docs) ==
    \A k \in 1..Len(docs) : \A p \in paths :
        (Len(p) > 1 /\ p[1] \in DOMAIN docs[k]) => TypeTag(docs[k][p[1]]) = "object"

RECURSIVE ExcludedPairs(_, _)
ExcludedPairs(paths, pairs) ==
    IF pairs = <<>> THEN <<>>
    ELSE LET key == Head(pairs)[1]
             value == Head(pairs)[2]
             rest == ExcludedPairs(paths, Tail(pairs))
         IN  IF <<key>> \in paths THEN rest
             ELSE IF Below(paths, key) # {} /\ TypeTag(value) = "object"
             THEN << <<key, Obj(ExcludedPairs(Below(paths, key), value[2]))>> >> \o rest
             ELSE <<Head(pairs)>> \o rest

ExcludedDoc(paths, doc) ==
    [field \in {f \in DOMAIN doc : f = "_id" \/ <<f>> \notin paths} |->
        IF field # "_id" /\ Below(paths, field) # {} /\ TypeTag(doc[field]) = "object"
        THEN Obj(ExcludedPairs(Below(paths, field), doc[field][2]))
        ELSE doc[field]]

\* a mapping whose markers are all 0
Exclusion(fields) ==
    PathsOf(fields) # {} /\ MarkedWith(fields, 0) = PathsOf(fields)

\* C20: when a leaf of the expanded projection is 0, at any depth, every
\* document find returns keeps every key of the stored document but those
\* whose leaf is 0, and a nested object a dotted path leads into is kept
\* with the exclusions of its sub-tree applied.
C20_ExclusionAtAnyDepth ==
    (Projected /\ Exclusion(calls[1].given.options["fields"])) =>
        calls[1].result[2] =
            [k \in 1..Len(Unprojected) |->
                ExcludedDoc(PathsOf(calls[1].given.options["fields"]), Unprojected[k])]

\* the same, for the projections whose 0 markers all sit at the top level
C20_TopLevelExclusion ==
    (Projected /\ Exclusion(calls[1].given.options["fields"])
               /\ \A p \in PathsOf(calls[1].given.options["fields"]) : Len(p) = 1) =>
        calls[1].result[2] =
            [k \in 1..Len(Unprojected) |->
                ExcludedDoc(PathsOf(calls[1].given.options["fields"]), Unprojected[k])]

\* a mapping of dotted paths only, each marked 0
NestedExclusion(fields) ==
    Exclusion(fields) /\ \A p \in PathsOf(fields) : Len(p) > 1

\* what the test of the nested exclusion asks for: _id, and each parent
\* the paths lead into without the nested keys they name
NestedExcludedDoc(paths, doc) ==
    [field \in {f \in DOMAIN doc : f = "_id" \/ Below(paths, f) # {}} |->
        IF field = "_id" THEN doc[field]
        ELSE Obj(ExcludedPairs(Below(paths, field), doc[field][2]))]

\* C21: for a projection made only of dotted paths marked 0 every document
\* find returns holds _id and each parent with the excluded nested keys
\* removed and its other nested keys kept, and no other top-level field of
\* the stored document.
C21_NestedOnlyExclusion ==
    (Projected /\ NestedExclusion(calls[1].given.options["fields"])
               /\ IntoObjects(PathsOf(calls[1].given.options["fields"]), Unprojected)) =>
        calls[1].result[2] =
            [k \in 1..Len(Unprojected) |->
                NestedExcludedDoc(PathsOf(calls[1].given.options["fields"]), Unprojected[k])]

\* a find with 'data.age': 0 has returned the document with a nested
\* document as _id and data without age, its colour at the top level gone
C21_Witness ==
    /\ Projected
    /\ calls[1].given.options["fields"] = Obj(<< Path(<<"data", "age">>, 0) >>)
    /\ Len(calls[1].result[2]) > 0
    /\ "colour" \in DOMAIN Unprojected[1]
    /\ DOMAIN calls[1].result[2][1] = {"_id", "data"}
    /\ calls[1].result[2][1]["data"] = Obj(<< <<"colour", Str("yellow")>> >>)

----------------------------------------------------------------------------
(* Claims on collections, connection state, indices and identifiers *)

\* the call of an awaiting caller leaves getCollection in this step
Looked == /\ Len(calls) = 1 /\ Len(calls') = 1
          /\ calls[1].phase = "waitDb" /\ calls'[1].phase # "waitDb"

\* C22: on a connected facade getCollection never fails with not-found: for
\* every name it hands on the collection of that name, created exactly when
\* the database has none of that name and the existing one otherwise; a find
\* on a collection that has just been created resolves with zero results.
C22_GetCollectionCreates ==
    [][/\ Looked =>
            /\ calls'[1].phase = "waitColl"
            /\ calls'[1].collection \in DOMAIN collections'
            /\ \A c \in DOMAIN collections : collections'[c] = collections[c]
            /\ DOMAIN collections' = DOMAIN collections \cup {calls[1].collection}
            /\ calls[1].collection \notin DOMAIN collections =>
                   collections'[calls[1].collection] = EmptyCollection
       /\ (/\ Len(calls) = 1 /\ Len(calls') = 1
           /\ calls[1].op = "find" /\ calls[1].phase = "waitColl"
           /\ calls'[1].phase # "waitColl"
           /\ collections[calls[1].collection] = EmptyCollection) =>
               /\ calls'[1].phase = "resolved"
               /\ calls'[1].result = <<"found", <<>>, 0>>]_vars

\* a find on a name the database did not have has resolved with no results,
\* next to a collection that holds documents
C22_Witness ==
    /\ Len(calls) = 1
    /\ calls[1].op = "find" /\ calls[1].phase = "resolved"
    /\ calls[1].result = <<"found", <<>>, 0>>
    /\ collections[calls[1].collection] = EmptyCollection
    /\ \E c \in DOMAIN collections : collections[c].data # <<>>

\* C23: readyState is 0 from construction until the engine reports loaded
\* and 1 from then on; the facade becomes connected at most once, the
\* DB_CONNECTED notification is emitted exactly once, on that transition,
\* however many connect calls are made; whenever the promise of connect has
\* resolved, readyState is 1.
C23_ReadyState ==
    /\ [](/\ readyState \in {STATE_DISCONNECTED, STATE_CONNECTED}
          /\ (readyState = STATE_CONNECTED) <=> (database.state = "resolved")
          /\ emitted = (IF readyState = STATE_CONNECTED THEN 1 ELSE 0))
    /\ [][/\ readyState' # readyState =>
               /\ readyState = STATE_DISCONNECTED
               /\ database.state = "loading"
               /\ emitted' = emitted + 1
          /\ emitted' # emitted => readyState' # readyState]_vars

\* two connect calls made before the engine reported loaded, one notification
C23_Witness ==
    /\ Len(returned) = 2
    /\ returned[2].found # "resolved"
    /\ readyState = STATE_CONNECTED
    /\ emitted = 1

\* the callback of dropDatabase runs in this step
Dropping == /\ Len(calls) = 1 /\ Len(calls') = 1
            /\ calls[1].phase = "waitDrop" /\ calls'[1].phase # "waitDrop"

\* C24: dropDatabase(collectionName) clears the collection of that name in
\* place: the collection is empty and still exists, and the collections with
\* other names keep their documents; without a name every collection is
\* cleared.
C24_DropNamed ==
    [][Dropping =>
          /\ DOMAIN collections' = DOMAIN collections
          /\ \A c \in DOMAIN collections :
                IF calls[1].given \in {"", c}
                THEN collections'[c].data = <<>>
                ELSE collections'[c] = collections[c]]_vars

\* what holds of every drop: every collection is cleared in place, whatever
\* name is given
C24_DropClearsAll ==
    [][Dropping =>
          /\ DOMAIN collections' = DOMAIN collections
          /\ \A c \in DOMAIN collections : collections'[c].data = <<>>]_vars

\* the specifications index answers for: every one but a lone _id key
LoneId(spec) == Len(spec.keys) = 1 /\ spec.keys[1] = "_id"
Answered(indexes) == SelectSeq(indexes, LAMBDA spec : ~LoneId(spec))
IndexResults(collectionName, indexes) ==
    [k \in 1..Len(Answered(indexes)) |->
        [collection |-> collectionName, index |-> Answered(indexes)[k].keys[1]]]

\* C25: index(collection, indexSpecs) eventually resolves for every list of
\* specifications, an empty list and a list that ends with an index on _id
\* alone included, with one result per specification other than a lone _id
\* key, in order, each naming the indexed field.
C25_IndexResolves ==
    \A c \in AdminCollections : \A indexes \in IndexLists :
        (Len(calls) = 1 /\ calls[1].op = "index" /\ calls[1].phase = "waitDb"
            /\ calls[1].collection = c /\ calls[1].given = indexes)
        ~> (Len(calls) = 1 /\ calls[1].op = "index" /\ calls[1].phase = "resolved"
            /\ calls[1].collection = c /\ calls[1].given = indexes
            /\ calls[1].result = <<"indexes", IndexResults(c, indexes)>>)

\* what holds of index and getIndexes: a call of index that resolves carries
\* one result per specification other than a lone _id key, in order, and
\* getIndexes lists every indexed field once, the unique ones marked
C25_IndexResultsWhenResolved ==
    /\ (Len(calls) = 1 /\ calls[1].op = "index" /\ calls[1].phase = "resolved") =>
            /\ calls[1].result = <<"indexes", IndexResults(calls[1].collection, calls[1].given)>>
            /\ \A k \in 1..Len(calls[1].result[2]) :
                  calls[1].result[2][k].index \in
                      Range(collections[calls[1].collection].binaryIndices)
                      \cup Range(collections[calls[1].collection].unique)
    /\ (Len(calls) = 1 /\ calls[1].op = "getIndexes" /\ calls[1].phase = "resolved") =>
            /\ {r.name : r \in {x \in Range(calls[1].result[2]) : ~x.unique}}
                  = Range(collections[calls[1].collection].binaryIndices)
            /\ {r.name : r \in {x \in Range(calls[1].result[2]) : x.unique}}
                  = Range(collections[calls[1].collection].unique)

\* the identifiers of the documents a call carries as its result
ResultIds(call) == {call.result[2][k]["_id"] : k \in 1..Len(call.result[2])}

\* C26: two adapters obtained from the module and connected with different
\* database names each own a database: a find through one adapter returns
\* no document that was inserted through the other.
C26_DistinctDatabases ==
    [][\A h \in 1..2 :
          (/\ Len(calls) = 2 /\ Len(calls') = 2
           /\ returned[1].database # returned[2].database
           /\ calls[h].op = "find" /\ calls[h].phase = "waitColl"
           /\ calls'[h].phase = "resolved"
           /\ calls[3 - h].op = "insert" /\ calls[3 - h].phase = "resolved") =>
              ResultIds(calls'[h]) \cap ResultIds(calls[3 - h]) = {}]_vars

\* C27: in every reachable state, after any sequence of insert, update and
\* delete calls (inserts that supply their own _id included), no two
\* documents of one collection have the same _id.
C27_UniqueIds ==
    \A c \in DOMAIN collections :
        \A i, j \in 1..Len(collections[c].data) :
            i # j => Get(collections[c].data[i], "_id") # Get(collections[c].data[j], "_id")

\* what holds of the identifiers the facade draws: no two documents of one
\* collection share an _id unless a caller supplied it
C27_UniqueDrawnIds ==
    \A c \in DOMAIN collections :
        \A i, j \in 1..Len(collections[c].data) :
            (i # j /\ TypeTag(Get(collections[c].data[i], "_id")) = "uuid") =>
                Get(collections[c].data[i], "_id") # Get(collections[c].data[j], "_id")

C29_NoRetry ==
    /\ [](database.state = "rejected" =>
              /\ opened = 0
              /\ readyState = STATE_DISCONNECTED
              /\ database.error \in {"mkdirp", "writeFile"}
              /\ \A i \in 1..Len(returned) : returned[i].promise = database.id)
    /\ [][database.state = "rejected" =>
              /\ database' = database
              /\ directoryCreation' = directoryCreation
              /\ fileExists' = fileExists
              /\ opened' = opened
              /\ readyState' = readyState]_vars

\* a connect call made after the first one was rejected
C29_Witness ==
    /\ Len(returned) = 2
    /\ returned[2].found = "rejected"
    /\ database.state = "rejected"

\* a projection that names a key and a dotted path below that key
Conflicting(fields) ==
    \E p, q \in PathsOf(fields) :
        Len(p) < Len(q) /\ SubSeq(q, 1, Len(p)) = p

\* last-definition-wins: each entry in turn determines the tree at its key,
\* whatever an earlier entry has put there or on the way to it
RECURSIVE PutPath(_, _, _)
PutPath(tree, nodes, value) ==
    IF Len(nodes) = 1 THEN Obj(Assign(tree[2], nodes[1], value))
    ELSE LET current == Lookup(tree[2], nodes[1])
             child == IF TypeTag(current) = "object" THEN current ELSE Obj(<<>>)
         IN  Obj(Assign(tree[2], nodes[1], PutPath(child, Tail(nodes), value)))

RECURSIVE LastWinsFrom(_, _)
LastWinsFrom(tree, projection) ==
    IF projection = <<>> THEN tree
    ELSE LastWinsFrom(PutPath(tree, Head(projection)[1], Head(projection)[2]),
                      Tail(projection))

\* C30: when a projection names both a key and a dotted path below that key
\* the expansion resolves the conflict as last-definition-wins, whichever of
\* the two entries comes first.
C30_LastDefinitionWins ==
    \A i \in 1..Len(calls) :
        (/\ calls[i].op = "find"
         /\ "fields" \in DOMAIN calls[i].given.options
         /\ Conflicting(calls[i].given.options["fields"])) =>
            LET projection == FlattenedProjection(calls[i].given.options["fields"])
            IN  /\ convertFieldsProjection(projection) # TypeError
                /\ convertFieldsProjection(projection) = LastWinsFrom(Obj(<<>>), projection)

\* the same, for the conflicts whose dotted path comes first or whose key is
\* marked 0
C30_LastWinsUnlessKeyMarkedFirst ==
    \A i \in 1..Len(calls) :
        (/\ calls[i].op = "find"
         /\ "fields" \in DOMAIN calls[i].given.options
         /\ Conflicting(calls[i].given.options["fields"])
         /\ calls[i].given.options["fields"] #
                Obj(<< Path(<<"data">>, 1), Path(<<"data", "age">>, 1) >>)) =>
            LET projection == FlattenedProjection(calls[i].given.options["fields"])
            IN  /\ convertFieldsProjection(projection) # TypeError
                /\ convertFieldsProjection(projection) = LastWinsFrom(Obj(<<>>), projection)

----------------------------------------------------------------------------
(* Claims on idempotence, the module, suspension and close *)

\* C31: projection is idempotent under an inclusion specification: the
\* documents find has projected, projected again with the same
\* specification, are the same documents.
C31_ProjectionIdempotent ==
    (Projected /\ Inclusion(calls[1].given.options["fields"])) =>
        LET again == applyFieldsFilterToResults(calls[1].given.options["fields"],
                                                calls[1].result[2])
        IN  ~again.error /\ again.documents = calls[1].result[2]

\* a find with the fields colour and 'data.age' has returned documents, one
\* of them with a nested document cut down to age
C31_Witness ==
    /\ Projected
    /\ calls[1].given.options["fields"] =
           Obj(<< Path(<<"colour">>, 1), Path(<<"data", "age">>, 1) >>)
    /\ Len(calls[1].result[2]) = 3
    /\ DOMAIN calls[1].result[2][1] = {"_id", "colour", "data"}
    /\ calls[1].result[2][1]["data"] = Obj(<< <<"age", Num(2)>> >>)

\* a filter of literals and comparisons, the filters Satisfies is stated for
Comparing(filter) ==
    /\ Plain(filter)
    /\ \A i \in 1..Len(filter) :
          \/ TypeTag(filter[i][2]) \in {"string", "number"}
          \/ /\ TypeTag(filter[i][2]) = "object"
             /\ filter[i][2][2] # <<>>
             /\ \A k \in 1..Len(filter[i][2][2]) :
                   /\ filter[i][2][2][k][1] \in {"$gt", "$gte", "$lt", "$lte"}
                   /\ TypeTag(filter[i][2][2][k][2]) = "number"

\* C36: the count find hands to the metadata builder is the number of
\* documents of the collection that match the filter, whatever the skip, the
\* limit, the sort and the projection, and find leaves the documents of
\* every collection as they are.  For every filter the count is the number
\* of documents a find with no options returns; for a filter of literals
\* and comparisons it is the number of documents the filter asks for.
C36_CountAndFrame ==
    /\ [](Read => calls[1].result[3] = Len(Unprojected))
    /\ []((Read /\ Comparing(calls[1].given.query)) =>
              calls[1].result[3] =
                  Cardinality(Asked(collections[calls[1].collection],
                                    calls[1].given.query)))
    /\ [][(Len(calls') = 1 /\ calls'[1].op = "find") =>
              \A c \in DOMAIN collections :
                  c \in DOMAIN collections' /\ collections'[c] = collections[c]]_vars

\* a find that skips one document and keeps one has counted three
C36_Witness ==
    /\ Read
    /\ "skip" \in DOMAIN calls[1].given.options
    /\ Comparing(calls[1].given.query)
    /\ Len(calls[1].result[2]) = 1
    /\ calls[1].result[3] = 3

\* the amount an update adds to age: the update is $inc of age alone
Increment(upd) == upd[1][2][2][1][2][2]

\* the age a stored document was inserted with
InsertedAge(doc) ==
    LET k == doc["$loki"][2] IN calls[1].given[k]["age"][2]

\* C34: overlapping calls on one collection interleave as whole operations.
\* Two overlapping $inc updates that have both resolved leave the age of
\* every document increased by the amounts of the updates whose filter asks
\* for it (d1 + d2 for a document both ask for); the deletedCount of a
\* delete is the number of documents its step removed, and they are the
\* documents its filter asked for in the state the step started from; the
\* count and the results of a find are both those of the state its step
\* started from.
C34_WholeOperations ==
    /\ []((/\ Len(calls) = 3
           /\ calls[1].phase = "resolved"
           /\ \A i \in {2, 3} : calls[i].op = "update" /\ calls[i].phase = "resolved")
          => \A k \in 1..Len(collections["users"].data) :
                LET doc == collections["users"].data[k]
                    Added(i) == IF Satisfies(doc, calls[i].given.query)
                                THEN Increment(calls[i].given.update) ELSE 0
                IN  doc["age"] = Num(InsertedAge(doc) + Added(2) + Added(3)))
    /\ [][\A i \in CallIds :
            /\ Ends(i, "delete") =>
                  LET before == collections[calls[i].collection]
                      after == collections'[calls[i].collection]
                      asked == Asked(before, calls[i].given.query)
                  IN  /\ calls'[i].phase = "resolved"
                      /\ calls'[i].result =
                            <<"deleted", Len(before.data) - Len(after.data)>>
                      /\ after.data = DocsAt(before.data, (1..Len(before.data)) \ asked)
            /\ Ends(i, "find") =>
                  LET before == collections[calls[i].collection]
                      asked == Asked(before, calls[i].given.query)
                  IN  /\ calls'[i].phase = "resolved"
                      /\ calls'[i].result[3] = Cardinality(asked)
                      /\ calls'[i].result[2] = DocsAt(before.data, asked)
       ]_vars

\* two $inc updates issued with no wait, by 1 on the green document and by
\* 2 on every document, have both resolved: Oscar's age is 1 + 1 + 2 and
\* Ernie's is 2 + 2
C34_Witness ==
    /\ Len(calls) = 3
    /\ calls[2].op = "update" /\ calls[2].phase = "resolved"
    /\ calls[3].op = "update" /\ calls[3].phase = "resolved"
    /\ Increment(calls[2].given.update) = 1
    /\ Increment(calls[3].given.update) = 2
    /\ calls[2].given.query = << <<"colour", Str("green")>> >>
    /\ calls[3].given.query = <<>>
    /\ Len(collections["users"].data) = 2
    /\ collections["users"].data[2]["age"] = Num(4)
    /\ collections["users"].data[1]["age"] = Num(4)


\* C32: the exported function gives the instance the module holds, whatever
\* options it is called with, and builds nothing; reset makes the module hold
\* none, and the call that follows builds a new facade with readyState 0,
\* no database handle and that call's options; the module changes the
\* instance it holds only through reset, and neither reset nor a later call
\* of the exported function changes a facade built before.
C32_OneInstanceUntilReset ==
    /\ [](\A k \in 1..Len(handed) :
            /\ handed[k].held # NoInstance => handed[k].facade = handed[k].held
            /\ handed[k].facade \in DOMAIN built)
    /\ [][/\ instance # NoInstance => instance' \in {instance, NoInstance}
          /\ (instance # NoInstance /\ instance' = instance) =>
                DOMAIN built' = DOMAIN built
          /\ (instance' # instance \/ Len(handed') > Len(handed)) =>
                \A f \in DOMAIN built : built'[f] = built[f]
          /\ (instance = NoInstance /\ Len(handed') > Len(handed)) =>
                LET h == handed'[Len(handed')]
                IN  /\ h.facade \notin DOMAIN built
                    /\ instance' = h.facade
                    /\ built'[h.facade].readyState = STATE_DISCONNECTED
                    /\ built'[h.facade].database = "undefined"
                    /\ built'[h.facade].config =
                          (IF h.options = "undefined" THEN "config.get()" ELSE h.options)
       ]_vars

\* an adapter was obtained without options and connected, a second call
\* with options gave the same adapter, and after a reset a third call built
\* a new facade, disconnected, while the first is still connected
C32_Witness ==
    /\ Len(handed) = 3
    /\ handed[1].facade = handed[2].facade
    /\ handed[1].options = "undefined" /\ handed[2].options = "options"
    /\ handed[3].held = NoInstance
    /\ handed[3].facade # handed[1].facade
    /\ instance = handed[3].facade
    /\ built[handed[1].facade].readyState = STATE_CONNECTED
    /\ built[handed[1].facade].config = "config.get()"
    /\ built[handed[3].facade].readyState = STATE_DISCONNECTED


\* the close calls, and those for which the engine's close was called
Closing == {i \in CallIds : calls[i].op = "close"}
EngineClosed == {i \in Closing : calls[i].phase \in {"closing", "resolved"}}

\* C33 (the deferral): an operation issued once connect was called and
\* before the engine reported loaded reaches the engine only on a connected
\* facade: a step that changes a collection, calls the engine's close, or
\* takes a call past its wait for this.database other than to its failure,
\* starts from a state where the engine has reported loaded.
C33_DeferredUntilLoaded ==
    [][(\/ collections' # collections
        \/ closes' # closes
        \/ \E i \in CallIds :
              /\ calls[i].phase \in {"waitDb", "waitDrop", "waitClose"}
              /\ calls'[i].phase \notin {calls[i].phase, "rejected", "orphaned"})
       => (readyState = STATE_CONNECTED /\ database.state = "resolved")]_vars

\* an operation was issued before the engine reported loaded
Early(i) ==
    /\ i \in CallIds
    /\ calls[i].op = "close" => calls[i].given.found \in {"waitDir", "stat", "write", "loading"}

\* C33: an operation issued after connect was called and before the engine
\* reported loaded settles once the engine has reported loaded.
C33_EarlySettles ==
    \A i \in 1..MaxEarly :
        (Early(i) /\ readyState = STATE_CONNECTED)
            ~> (i \in CallIds /\ calls[i].phase \in Settled)

\* C35: every close call whose callback has run on the loaded database has
\* called the engine's close once, and close resolves only from the
\* engine's callback; once the engine's close was called the facade stays
\* connected with the handle it had: no step changes readyState,
\* this.database or the number of engines opened, and a connect call returns
\* that handle.
C35_CloseKeepsHandle ==
    /\ [](closes = Cardinality(EngineClosed))
    /\ [](closes > 0 =>
            /\ readyState = STATE_CONNECTED
            /\ database.state = "resolved"
            /\ opened = 1)
    /\ [][/\ \A i \in Closing :
                (calls'[i].phase = "resolved" /\ calls[i].phase # "resolved")
                    => calls[i].phase = "closing"
          /\ closes > 0 =>
                /\ database' = database
                /\ Len(returned') > Len(returned) =>
                      /\ returned'[Len(returned')].found = "resolved"
                      /\ returned'[Len(returned')].promise = database.id
       ]_vars

\* close was called on a connected facade after its one connect and has
\* resolved; a connect called after that close found the resolved handle and
\* returned it, with one engine opened
C35_Witness ==
    /\ Len(calls) = 1
    /\ calls[1].op = "close"
    /\ calls[1].given = [found |-> "resolved", connects |-> 1]
    /\ calls[1].phase = "resolved"
    /\ closes = 1
    /\ Len(returned) = 2
    /\ returned[2].found = "resolved"
    /\ returned[2].promise = returned[1].promise
    /\ opened = 1
    /\ readyState = STATE_CONNECTED


============================================================================
